---- MODULE Spec2Model ----
(***************************************************************************)
(* State-aggregation engine of indra/llwindow/llgamecontrol.cpp:           *)
(* per-device states, the device accumulator, the external (agent) state,  *)
(* the merged and clamped final state, and the resend scheduler.           *)
(*                                                                         *)
(* Representation notes.                                                   *)
(*  - An axis vector (std::vector<S16>/<S32> of NUM_AXES entries) is a     *)
(*    function on 0..NUM_AXES-1, so indices are the source's indices.      *)
(*  - A U32 bit mask (buttons, agent control flags) is the set of the      *)
(*    positions of its set bits, a subset of 0..31: | is \cup, & is \cap.   *)
(*  - A U64 nanosecond count is a tuple of four 16-bit limbs, least        *)
(*    significant first, with arithmetic modulo 2^64.                      *)
(***************************************************************************)
EXTENDS Integers, Sequences, FiniteSets, TLC

\* ------------------------------------------------------------ constants

NUM_AXES == 6
NUM_BUTTONS == 32
MAX_AXIS == NUM_AXES - 1
MAX_BUTTON == NUM_BUTTONS - 1
AXIS_TRIGGERLEFT == 4
AXIS_TRIGGERRIGHT == 5
S16_MIN == -32768
S16_MAX == 32767

AxisIndex == 0 .. (NUM_AXES - 1)
ButtonIndex == 0 .. (NUM_BUTTONS - 1)
ZeroAxes == [i \in AxisIndex |-> 0]

\* ------------------------------------------------------------ U64 values

LimbBase == 2 ^ 16

U64Zero == <<0, 0, 0, 0>>

\* n is a non-negative integer below 2^31
U64FromInt(n) == <<n % LimbBase, (n \div LimbBase) % LimbBase, 0, 0>>

\* a + b modulo 2^64
U64Add(a, b) ==
    LET s1 == a[1] + b[1]
        s2 == a[2] + b[2] + (s1 \div LimbBase)
        s3 == a[3] + b[3] + (s2 \div LimbBase)
        s4 == a[4] + b[4] + (s3 \div LimbBase)
    IN  <<s1 % LimbBase, s2 % LimbBase, s3 % LimbBase, s4 % LimbBase>>

\* a * k modulo 2^64, for 0 <= k < 2^15
U64Mul(a, k) ==
    LET p1 == a[1] * k
        p2 == a[2] * k + (p1 \div LimbBase)
        p3 == a[3] * k + (p2 \div LimbBase)
        p4 == a[4] * k + (p3 \div LimbBase)
    IN  <<p1 % LimbBase, p2 % LimbBase, p3 % LimbBase, p4 % LimbBase>>

\* a < b
U64Less(a, b) ==
    \/ a[4] < b[4]
    \/ a[4] = b[4] /\ a[3] < b[3]
    \/ a[4] = b[4] /\ a[3] = b[3] /\ a[2] < b[2]
    \/ a[4] = b[4] /\ a[3] = b[3] /\ a[2] = b[2] /\ a[1] < b[1]

MSEC_PER_NSEC == U64FromInt(1000000)
FIRST_RESEND_PERIOD == U64Mul(MSEC_PER_NSEC, 100)
RESEND_EXPANSION_RATE == 10

\* ------------------------------------------------------------ bounds

\* a channel name is a prefix followed by at most MaxSuffix further characters
MaxSuffix == 3

\* the clock stops advancing at MaxClock first-resend periods (100 ms each)
MaxClock == 12
\* at most MaxResends consecutive sends with no detected change in between
MaxResends == 3
\* the same limit where the backoff is followed to the end of the U64 range
MaxBackoff == 13

ClockHorizon == U64Mul(FIRST_RESEND_PERIOD, MaxClock)
\* how far one reading of the clock may lie after the previous one
TickSteps == {FIRST_RESEND_PERIOD, U64Mul(FIRST_RESEND_PERIOD, RESEND_EXPANSION_RATE)}

\* ------------------------------------------------------------ state

VARIABLES
    mStates,                 \* LLGameControllerManager::mStates, one State per device
    mExternalState,          \* LLGameControllerManager::mExternalState
    mAxesAccumulator,        \* std::vector<S32>, NUM_AXES entries
    mButtonAccumulator,      \* U32
    mLastActiveFlags,        \* U32
    mLastFlycamActionFlags,  \* U32
    g_finalState,            \* sum of inner and outer
    g_lastSend,              \* U64
    g_nextResendPeriod,      \* U64
    g_sendToServer,
    g_controlAgent,
    g_translateAgentActions,
    g_agentControlMode,      \* "avatar", "flycam" or "none"
    mActionMap,              \* mActionTranslator: signed action name -> InputChannel
    now,                     \* the steady clock, as get_now_nsec() reads it
    packetDue,               \* what computeFinalStateAndCheckForChanges returned last
    changeSeen,              \* history: some computeFinalState call detected a change
    sendsSinceChange,        \* history: updateResendPeriod calls since the last detected
                             \* change (since construction while changeSeen is FALSE)
    preChangeAxes,           \* history: g_finalState.mAxes before the last detected change
    negAxis, negRaw, negOnce, negTwice, negCount,
                             \* harness applying the onAxis storage rule repeatedly
    mFlycamChannels,         \* LLGameControllerManager::mFlycamChannels, one per slot
    lastEvent,               \* history: the SDL event handled last and what became of it
    onButtonChanged,         \* what State::onButton returned in the last button event
    parsedName,              \* the argument of the last getChannelByName call
    parsedChannel,           \* what the last getChannelByName call returned
    updateActionMapResult,   \* the last updateActionMap call: its arguments and what it
                             \* returned
    internalActionFlags,     \* what the last computeInternalActionFlags call returned
    flycamInputs,            \* what the last getFlycamInputs call appended to inputs
    loadedSettings,          \* what the last loadFromSettings call read from the store
    rtAxes, rtButtons, rtFlags, rtBack, rtFlagsBack, rtCount,
                             \* harness taking a state through the translator and back
    savedMappings,           \* what the last getFlycamMappings call returned
    savedChannels,           \* history: mFlycamChannels when that call was made
    savedCount               \* harness: 1 once the string is taken, 2 once it is set back

devVars == <<mStates>>
extVars == <<mExternalState, mLastActiveFlags, mLastFlycamActionFlags>>
accVars == <<mAxesAccumulator, mButtonAccumulator>>
schedVars == <<g_lastSend, g_nextResendPeriod>>
modeVars == <<g_sendToServer, g_controlAgent, g_translateAgentActions,
              g_agentControlMode>>
histVars == <<changeSeen, sendsSinceChange, preChangeAxes>>
negVars == <<negAxis, negRaw, negOnce, negTwice, negCount>>

mapVars == <<mActionMap, mFlycamChannels>>
callVars == <<lastEvent, onButtonChanged, parsedName, parsedChannel>>
retVars == <<updateActionMapResult, internalActionFlags, flycamInputs, loadedSettings>>
rtVars == <<rtAxes, rtButtons, rtFlags, rtBack, rtFlagsBack, rtCount, savedMappings,
           savedChannels, savedCount>>

vars == <<devVars, extVars, accVars, g_finalState, schedVars, modeVars, mapVars, now,
          packetDue, histVars, negVars, callVars, retVars, rtVars>>

\* LLGameControl::State::State()
NewState == [mAxes |-> ZeroAxes, mPrevAxes |-> ZeroAxes, mButtons |-> {}]

\* a State with setDevice(id, controller) applied (the handle is opaque)
NewDevice(id) == [mJoystickID |-> id, mAxes |-> ZeroAxes, mPrevAxes |-> ZeroAxes,
                  mButtons |-> {}]

\* LLGameControllerManager::findState: the position of the device, 0 for end()
findState(id) ==
    IF \E k \in 1 .. Len(mStates) : mStates[k].mJoystickID = id
    THEN CHOOSE k \in 1 .. Len(mStates) :
            /\ mStates[k].mJoystickID = id
            /\ \A j \in 1 .. (k - 1) : mStates[j].mJoystickID # id
    ELSE 0

\* ------------------------------------------------------------ pure helpers

\* the cast (S16)x of an integer
ToS16(x) == ((x + 32768) % 65536) - 32768

\* a slip in onAxis: the trigger axes are negated like the stick axes
NegatedRaw_allAxes(axis, value) ==
    IF value < 0 THEN - (value + 1)
    ELSE IF value > 0 THEN (- value) - 1
    ELSE value

\* a slip in onAxis: plain negation
NegatedRaw_plain(axis, value) ==
    IF axis < AXIS_TRIGGERLEFT THEN - value ELSE value

\* onAxis: the value computed for storage from a raw axis value, before it is
\* assigned back to the S16 parameter
NegatedRaw(axis, value) ==
    IF axis < AXIS_TRIGGERLEFT
    THEN IF value < 0 THEN - (value + 1)
         ELSE IF value > 0 THEN (- value) - 1
         ELSE value
    ELSE value

\* onAxis: the S16 that is stored
StoredAxisValue(axis, value) == ToS16(NegatedRaw(axis, value))

\* std::min(std::max(axis, -32768), 32767)
MinMax(axis) ==
    LET lo == IF axis > -32768 THEN axis ELSE -32768
    IN  IF lo < 32767 THEN lo ELSE 32767

\* a slip in State::onButton: no range test, the shift count wraps at the word size
ButtonsAfter_noRangeCheck(buttons, button, pressed) ==
    IF pressed THEN buttons \cup {button % NUM_BUTTONS}
    ELSE buttons \ {button % NUM_BUTTONS}

\* a slip in State::onButton: a release masks with the bit, not with its complement
ButtonsAfter_releaseKeepsOnlyBit(buttons, button, pressed) ==
    IF button <= MAX_BUTTON
    THEN IF pressed THEN buttons \cup {button} ELSE buttons \cap {button}
    ELSE buttons

\* State::onButton: the new mask
ButtonsAfter(buttons, button, pressed) ==
    IF button <= MAX_BUTTON
    THEN IF pressed THEN buttons \cup {button} ELSE buttons \ {button}
    ELSE buttons

\* State::onButton: the returned flag
onButtonReturn(buttons, button, pressed) ==
    buttons # ButtonsAfter(buttons, button, pressed)

\* a slip in State::clear: the button mask is left alone
ClearedState_keepButtons(st) == [st EXCEPT !.mAxes = ZeroAxes]

\* a slip in State::clear: the axes are kept
ClearedState_keepAxes(st) == [st EXCEPT !.mButtons = {}]

\* State::clear
ClearedState(st) == [st EXCEPT !.mAxes = ZeroAxes, !.mButtons = {}]

RECURSIVE SumAxis_clamped(_, _, _)
\* a slip in accumulateInternalState: the running sum is clamped to the S16 range
SumAxis_clamped(states, i, n) ==
    IF n = 0 THEN 0
    ELSE LET sum == SumAxis_clamped(states, i, n - 1) + states[n].mAxes[i]
         IN  IF sum < S16_MIN THEN S16_MIN ELSE IF sum > S16_MAX THEN S16_MAX ELSE sum

RECURSIVE SumAxis(_, _, _)
\* accumulateInternalState: mAxesAccumulator[i] after the first n devices
SumAxis(states, i, n) ==
    IF n = 0 THEN 0 ELSE SumAxis(states, i, n - 1) + states[n].mAxes[i]

RECURSIVE OrButtons(_, _)
\* accumulateInternalState: mButtonAccumulator after the first n devices
OrButtons(states, n) ==
    IF n = 0 THEN {} ELSE OrButtons(states, n - 1) \cup states[n].mButtons

\* a slip in computeFinalState: the external buttons are folded in unconditionally
MergedButtons_always(acc, ext, translate) == acc \cup ext

\* computeFinalState: final_state.mButtons
MergedButtons(acc, ext, translate) ==
    IF translate THEN acc \cup ext ELSE acc

\* a slip in computeFinalState: the sum is cast to S16 without clamping
MergedAxis_noClamp(acc, ext, translate) ==
    ToS16(IF translate THEN acc + ext ELSE acc)

\* computeFinalState: the clamped local 'axis' of one loop round
MergedAxis(acc, ext, translate) ==
    ToS16(MinMax(IF translate THEN acc + ext ELSE acc))

\* a slip in computeFinalState: the external axes are added onto mAxesAccumulator
AccumulatorAfterMerge_leak(acc, ext, translate) ==
    [i \in AxisIndex |-> IF translate THEN acc[i] + ext[i] ELSE acc[i]]

\* computeFinalState: mAxesAccumulator when it returns. The external axis is added
\* onto the local 'axis', never onto the accumulator.
AccumulatorAfterMerge(acc, ext, translate) == acc

\* a slip in computeFinalState: the axes are summed over the device table again
\* instead of being read from the accumulator
MergedState_live(final) ==
    LET axis(i) == MergedAxis(SumAxis(mStates, i, Len(mStates)), mExternalState.mAxes[i],
                              g_translateAgentActions)
    IN  [mAxes |-> [i \in AxisIndex |-> axis(i)],
         mPrevAxes |-> [i \in AxisIndex |->
                          IF final.mAxes[i] # axis(i) THEN final.mAxes[i]
                          ELSE final.mPrevAxes[i]],
         mButtons |-> MergedButtons(mButtonAccumulator, mExternalState.mButtons,
                                    g_translateAgentActions)]

\* a slip in computeFinalState: mPrevAxes is refreshed on every axis, changed or not
MergedState_prevAlways(final) ==
    [mAxes |-> [i \in AxisIndex |->
                  MergedAxis(mAxesAccumulator[i], mExternalState.mAxes[i],
                             g_translateAgentActions)],
     mPrevAxes |-> final.mAxes,
     mButtons |-> MergedButtons(mButtonAccumulator, mExternalState.mButtons,
                                g_translateAgentActions)]

\* a slip in computeFinalState: mPrevAxes[i] is copied after mAxes[i] is overwritten
MergedState_prevNew(final) ==
    LET axis(i) == MergedAxis(mAxesAccumulator[i], mExternalState.mAxes[i],
                              g_translateAgentActions)
    IN  [mAxes |-> [i \in AxisIndex |-> axis(i)],
         mPrevAxes |-> [i \in AxisIndex |->
                          IF final.mAxes[i] # axis(i) THEN axis(i)
                          ELSE final.mPrevAxes[i]],
         mButtons |-> MergedButtons(mButtonAccumulator, mExternalState.mButtons,
                                    g_translateAgentActions)]

\* computeFinalState: the State it leaves in final_state
MergedState(final) ==
    LET axis(i) == MergedAxis(mAxesAccumulator[i], mExternalState.mAxes[i],
                              g_translateAgentActions)
    IN  [mAxes |-> [i \in AxisIndex |-> axis(i)],
         mPrevAxes |-> [i \in AxisIndex |->
                          IF final.mAxes[i] # axis(i) THEN final.mAxes[i]
                          ELSE final.mPrevAxes[i]],
         mButtons |-> MergedButtons(mButtonAccumulator, mExternalState.mButtons,
                                    g_translateAgentActions)]

\* a slip in computeFinalState: only a changed button mask zeroes the period
MergeDetectsChange_buttonsOnly(final, merged) == final.mButtons # merged.mButtons

\* a slip in computeFinalState: only a changed axis zeroes the period
MergeDetectsChange_axesOnly(final, merged) ==
    \E i \in AxisIndex : final.mAxes[i] # merged.mAxes[i]

\* computeFinalState: whether it zeroes g_nextResendPeriod, given the State it
\* found and the State it leaves
MergeDetectsChange(final, merged) ==
    \/ final.mButtons # merged.mButtons
    \/ \E i \in AxisIndex : final.mAxes[i] # merged.mAxes[i]

\* a slip in the expiry test: a zeroed period waits for the first resend period
ShouldSend_zeroWaits(enabled, lastSend, period, t) ==
    enabled /\ U64Less(U64Add(lastSend, IF period = U64Zero THEN FIRST_RESEND_PERIOD
                                        ELSE period), t)

\* a slip in the expiry test: <= for <
ShouldSend_nonStrict(enabled, lastSend, period, t) ==
    enabled /\ ~ U64Less(t, U64Add(lastSend, period))

\* computeFinalStateAndCheckForChanges: the returned flag
ShouldSend(enabled, lastSend, period, t) ==
    enabled /\ U64Less(U64Add(lastSend, period), t)

\* a slip in updateResendPeriod: a zeroed period is expanded like any other
NextPeriod_noReset(period) == U64Mul(period, RESEND_EXPANSION_RATE)

\* updateResendPeriod: the new g_nextResendPeriod
NextPeriod(period) ==
    IF period = U64Zero THEN FIRST_RESEND_PERIOD
    ELSE U64Mul(period, RESEND_EXPANSION_RATE)

\* a slip in updateResendPeriod: mPrevAxes is overwritten on the first send too
StateAfterSend_always(final, period) == [final EXCEPT !.mPrevAxes = final.mAxes]

\* a slip in updateResendPeriod: mPrevAxes is never overwritten
StateAfterSend_never(final, period) == final

\* updateResendPeriod: the new g_finalState
StateAfterSend(final, period) ==
    IF period = U64Zero THEN final
    ELSE [final EXCEPT !.mPrevAxes = final.mAxes]

\* ------------------------------------------------------------ action translation

\* agent control bits (indra_constants.h), each the position of its one bit
AGENT_CONTROL_AT_POS == {0}
AGENT_CONTROL_AT_NEG == {1}
AGENT_CONTROL_LEFT_POS == {2}
AGENT_CONTROL_LEFT_NEG == {3}
AGENT_CONTROL_UP_POS == {4}
AGENT_CONTROL_UP_NEG == {5}
AGENT_CONTROL_PITCH_POS == {6}
AGENT_CONTROL_PITCH_NEG == {7}
AGENT_CONTROL_YAW_POS == {8}
AGENT_CONTROL_YAW_NEG == {9}
AGENT_CONTROL_FAST_AT == {10}
AGENT_CONTROL_FAST_LEFT == {11}
AGENT_CONTROL_FAST_UP == {12}
AGENT_CONTROL_FLY == {13}
AGENT_CONTROL_STOP == {14}
AGENT_CONTROL_NUDGE_AT_POS == {19}
AGENT_CONTROL_NUDGE_AT_NEG == {20}

\* LLGameControllerManager::LLGameControllerManager: actionMasks
actionMasks ==
    [a \in {"push+", "push-", "slide+", "slide-", "jump+", "jump-", "turn+", "turn-",
            "look+", "look-", "stop", "toggle_run", "toggle_fly", "toggle_flycam"} |->
        CASE a = "push+" -> AGENT_CONTROL_AT_POS \cup AGENT_CONTROL_FAST_AT
          [] a = "push-" -> AGENT_CONTROL_AT_NEG \cup AGENT_CONTROL_FAST_AT
          [] a = "slide+" -> AGENT_CONTROL_LEFT_POS \cup AGENT_CONTROL_FAST_LEFT
          [] a = "slide-" -> AGENT_CONTROL_LEFT_NEG \cup AGENT_CONTROL_FAST_LEFT
          [] a = "jump+" -> AGENT_CONTROL_UP_POS \cup AGENT_CONTROL_FAST_UP
          [] a = "jump-" -> AGENT_CONTROL_UP_NEG \cup AGENT_CONTROL_FAST_UP
          [] a = "turn+" -> AGENT_CONTROL_YAW_POS
          [] a = "turn-" -> AGENT_CONTROL_YAW_NEG
          [] a = "look+" -> AGENT_CONTROL_PITCH_POS
          [] a = "look-" -> AGENT_CONTROL_PITCH_NEG
          [] a = "stop" -> AGENT_CONTROL_STOP
          [] a = "toggle_run" -> AGENT_CONTROL_NUDGE_AT_POS
          [] a = "toggle_fly" -> AGENT_CONTROL_FLY
          [] a = "toggle_flycam" -> AGENT_CONTROL_NUDGE_AT_NEG]

SignedActions == DOMAIN actionMasks

Channel(type, index, sign) == [mType |-> type, mIndex |-> index, mSign |-> sign]

\* initializeMappingsByDefault: agent_defaults
agent_defaults ==
    [a \in {"push", "slide", "jump", "turn", "look",
            "toggle_run", "toggle_fly", "toggle_flycam", "stop"} |->
        CASE a = "push" -> Channel("AXIS", 1, 1)
          [] a = "slide" -> Channel("AXIS", 0, 1)
          [] a = "jump" -> Channel("AXIS", AXIS_TRIGGERLEFT, 1)
          [] a = "turn" -> Channel("AXIS", 2, 1)
          [] a = "look" -> Channel("AXIS", 3, 1)
          [] a = "toggle_run" -> Channel("BUTTON", 9, 0)
          [] a = "toggle_fly" -> Channel("BUTTON", 11, 0)
          [] a = "toggle_flycam" -> Channel("BUTTON", 10, 0)
          [] a = "stop" -> Channel("BUTTON", 7, 0)]

\* LLGameControl::InputChannel(): the default-constructed (none) channel
channelNone == Channel("NONE", 255, 0)

\* LLGameControllerManager::LLGameControllerManager: the three action families
mAnalogActions == <<"push", "slide", "jump", "turn", "look">>
mBinaryActions == <<"toggle_run", "toggle_fly", "toggle_flycam", "stop">>
mFlycamActions == <<"advance", "pan", "rise", "pitch", "yaw", "zoom">>

\* initializeMappingsByDefault: mFlycamChannels, in the order of mFlycamActions
flycam_defaults ==
    <<Channel("AXIS", 1, 1), Channel("AXIS", 0, 1), Channel("AXIS", AXIS_TRIGGERRIGHT, 1),
      Channel("AXIS", 3, -1), Channel("AXIS", 2, 1), Channel("NONE", 0, 0)>>

AnalogNegHalves == {"push-", "slide-", "jump-", "turn-", "look-"}

\* the unsigned action name a signed analog name was built from (name + "+", name + "-")
ActionBase(a) ==
    CASE a \in {"push+", "push-"} -> "push"
      [] a \in {"slide+", "slide-"} -> "slide"
      [] a \in {"jump+", "jump-"} -> "jump"
      [] a \in {"turn+", "turn-"} -> "turn"
      [] a \in {"look+", "look-"} -> "look"
      [] OTHER -> a

\* LLGameControlTranslator::setMappings: one channel per analog action gives both
\* signed halves, with opposite polarity; a binary action keeps its channel
ExpandedMappings(pairs) ==
    [a \in SignedActions |->
        IF a \in AnalogNegHalves
        THEN [pairs[ActionBase(a)] EXCEPT !.mSign = - pairs[ActionBase(a)].mSign]
        ELSE pairs[ActionBase(a)]]

\* LLGameControlTranslator::getMappedFlags
getMappedFlags(map) ==
    UNION {actionMasks[a] : a \in {b \in SignedActions : map[b].mType # "NONE"}}

\* LLGameControlTranslator::computeFlagsFromState: whether the channel an action is
\* bound to is active: the axis, times the channel's sign, is strictly positive,
\* or the button is set (for an axis index below NUM_AXES)
ChannelActive(channel, axes, buttons) ==
    \/ /\ channel.mType = "AXIS"
       /\ channel.mIndex \in DOMAIN axes
       /\ axes[channel.mIndex] * channel.mSign > 0
    \/ channel.mType = "BUTTON" /\ channel.mIndex \in buttons

\* LLGameControlTranslator::computeFlagsFromState
computeFlagsFromState(map, axes, buttons) ==
    UNION {actionMasks[a] :
              a \in {b \in SignedActions : ChannelActive(map[b], axes, buttons)}}

\* a slip in computeInternalActionFlags: g_controlAgent is not looked at
InternalActionFlags_always(controlAgent, map, axes, buttons) ==
    computeFlagsFromState(map, axes, buttons)

\* computeInternalActionFlags: the flags it returns, given the accumulators that
\* accumulateInternalState has just filled
InternalActionFlags(controlAgent, map, axes, buttons) ==
    IF controlAgent THEN computeFlagsFromState(map, axes, buttons) ELSE {}

\* a slip in computeStateFromFlags: one bit of an action's mask is enough
ActiveActions_anyBit(map, flags) ==
    {a \in SignedActions : map[a].mType # "NONE" /\ actionMasks[a] \cap flags # {}}

\* the mapped actions whose bits are all present in flags
ActiveActions(map, flags) ==
    {a \in SignedActions : map[a].mType # "NONE" /\ actionMasks[a] \subseteq flags}

\* LLGameControlTranslator::computeStateFromFlags: every State it may return. An
\* axis that several active actions are bound to takes the deflection of one of
\* them (which one is not specified).
computeStateFromFlags(map, flags) ==
    LET act == ActiveActions(map, flags)
        deflections == [i \in AxisIndex |->
            {IF map[a].mSign < 0 THEN S16_MIN ELSE S16_MAX :
                a \in {b \in act : map[b].mType = "AXIS" /\ map[b].mIndex = i}}]
        contested == {i \in AxisIndex : Cardinality(deflections[i]) > 1}
        buttons == {map[a].mIndex : a \in {b \in act : map[b].mType = "BUTTON"}}
    IN  {[mAxes |-> [i \in AxisIndex |->
                        IF i \in contested THEN pick[i]
                        ELSE IF deflections[i] = {} THEN 0
                        ELSE CHOOSE v \in deflections[i] : TRUE],
          mPrevAxes |-> ZeroAxes,
          mButtons |-> buttons] :
            pick \in [contested -> {S16_MIN, S16_MAX}]}

\* ------------------------------------------------------------ channel names

\* A std::string is the sequence of its characters, each a string of length one.
Digits == {"0", "1", "2", "3", "4", "5", "6", "7", "8", "9"}

DigitValue(c) ==
    CASE c = "0" -> 0 [] c = "1" -> 1 [] c = "2" -> 2 [] c = "3" -> 3 [] c = "4" -> 4
      [] c = "5" -> 5 [] c = "6" -> 6 [] c = "7" -> 7 [] c = "8" -> 8 [] c = "9" -> 9

PrefixAxis == <<"A", "X", "I", "S", "_">>
PrefixButton == <<"B", "U", "T", "T", "O", "N", "_">>

\* !strncmp(name.c_str(), prefix, strlen(prefix))
HasPrefix(name, prefix) ==
    /\ Len(name) >= Len(prefix)
    /\ SubSeq(name, 1, Len(prefix)) = prefix

\* name.substr(pos, n), for pos <= name.size()
Substr(name, pos, n) ==
    SubSeq(name, pos + 1, IF pos + n < Len(name) THEN pos + n ELSE Len(name))

RECURSIVE AtoiDigits(_, _)
\* atoi: the leading decimal digits of s, appended to the value read so far
AtoiDigits(s, sofar) ==
    IF s = <<>> \/ Head(s) \notin Digits THEN sofar
    ELSE AtoiDigits(Tail(s), sofar * 10 + DigitValue(Head(s)))

RECURSIVE Atoi(_)
\* atoi: white space, an optional sign, digits up to the first other character;
\* 0 if there are no digits
Atoi(s) ==
    IF s = <<>> THEN 0
    ELSE IF Head(s) = " " THEN Atoi(Tail(s))
    ELSE IF Head(s) = "-" THEN - AtoiDigits(Tail(s), 0)
    ELSE IF Head(s) = "+" THEN AtoiDigits(Tail(s), 0)
    ELSE AtoiDigits(s, 0)

\* the conversion of an int to the U8 mIndex
ToU8(x) == x % (2 ^ 8)

\* LLGameControl::getChannelByName
getChannelByName(name) ==
    IF HasPrefix(name, PrefixAxis)
    THEN Channel("AXIS", ToU8(Atoi(Substr(name, 5, 1))),
                 IF name[Len(name)] = "-" THEN -1 ELSE 1)
    ELSE IF HasPrefix(name, PrefixButton)
    THEN Channel("BUTTON", ToU8(Atoi(Substr(name, 7, 2))), 0)
    ELSE channelNone

\* std::to_string of an unsigned value
DigitChar(n) ==
    CASE n = 0 -> "0" [] n = 1 -> "1" [] n = 2 -> "2" [] n = 3 -> "3" [] n = 4 -> "4"
      [] n = 5 -> "5" [] n = 6 -> "6" [] n = 7 -> "7" [] n = 8 -> "8" [] n = 9 -> "9"

RECURSIVE to_string(_)
to_string(n) ==
    IF n < 10 THEN <<DigitChar(n)>> ELSE to_string(n \div 10) \o <<DigitChar(n % 10)>>

\* a slip in getLocalName: the sign of an axis is not written
getLocalName_noSign(channel) ==
    IF channel.mType = "AXIS" /\ channel.mIndex < NUM_AXES
    THEN PrefixAxis \o to_string(channel.mIndex)
    ELSE IF channel.mType = "BUTTON" /\ channel.mIndex < NUM_BUTTONS
    THEN PrefixButton \o to_string(channel.mIndex)
    ELSE <<"N", "O", "N", "E">>

\* LLGameControl::InputChannel::getLocalName
getLocalName(channel) ==
    IF channel.mType = "AXIS" /\ channel.mIndex < NUM_AXES
    THEN PrefixAxis \o to_string(channel.mIndex)
         \o (IF channel.mSign < 0 THEN <<"-">> ELSE IF channel.mSign > 0 THEN <<"+">>
             ELSE <<>>)
    ELSE IF channel.mType = "BUTTON" /\ channel.mIndex < NUM_BUTTONS
    THEN PrefixButton \o to_string(channel.mIndex)
    ELSE <<"N", "O", "N", "E">>

\* ------------------------------------------------------------ mapping tables

\* setMappings: the channel handed to updateMap for one action. pairs is the
\* std::map from action names to channel names that the mapping string was split
\* into; a channel of the other type, and an action with no pair, give channelNone.
MappedChannel(pairs, action, type) ==
    IF action \in DOMAIN pairs
    THEN LET channel == getChannelByName(pairs[action])
         IN  IF channel.mType = "NONE" \/ channel.mType = type THEN channel
             ELSE channelNone
    ELSE channelNone

\* LLGameControlTranslator::updateMap: an unsigned analog name binds both signed
\* halves, the "-" half with the opposite sign; any other known name binds itself
TranslatorUpdateMap(map, action, channel) ==
    [a \in SignedActions |->
        IF a = action THEN channel
        ELSE IF ActionBase(a) = action
        THEN IF a \in AnalogNegHalves /\ channel.mType # "NONE"
             THEN [channel EXCEPT !.mSign = - channel.mSign]
             ELSE channel
        ELSE map[a]]

RECURSIVE MapAfterSetMappings(_, _, _, _, _)
\* setMappings with the updateMap of setAnalogMappings and setBinaryMappings: the
\* translator's map after the first n actions of the family
MapAfterSetMappings(map, pairs, actions, type, n) ==
    IF n = 0 THEN map
    ELSE LET sofar == MapAfterSetMappings(map, pairs, actions, type, n - 1)
         IN  TranslatorUpdateMap(sofar, actions[n], MappedChannel(pairs, actions[n], type))

\* setMappings with the updateMap of setFlycamMappings: the flycam table afterwards
FlycamAfterSetMappings(pairs) ==
    [k \in 1 .. Len(mFlycamActions) |-> MappedChannel(pairs, mFlycamActions[k], "AXIS")]

FlycamActionNames == {mFlycamActions[k] : k \in 1 .. Len(mFlycamActions)}

\* a slip in the constructor: the signed halves of the analog actions are not
\* registered
mActions_noSignedHalves ==
    {mAnalogActions[k] : k \in 1 .. Len(mAnalogActions)}
    \cup {mBinaryActions[k] : k \in 1 .. Len(mBinaryActions)}
    \cup FlycamActionNames

\* LLGameControllerManager::LLGameControllerManager: the keys of mActions
mActions ==
    SignedActions \cup {mAnalogActions[k] : k \in 1 .. Len(mAnalogActions)}
    \cup FlycamActionNames

\* std::find and std::distance in updateFlycamMap: the slot of a flycam action
FlycamIndex(action) == CHOOSE k \in 1 .. Len(mFlycamActions) : mFlycamActions[k] = action

\* setExternalInput: BITS_OF_INTEREST
BITS_OF_INTEREST ==
    AGENT_CONTROL_AT_POS \cup AGENT_CONTROL_AT_NEG
    \cup AGENT_CONTROL_LEFT_POS \cup AGENT_CONTROL_LEFT_NEG
    \cup AGENT_CONTROL_UP_POS \cup AGENT_CONTROL_UP_NEG
    \cup AGENT_CONTROL_YAW_POS \cup AGENT_CONTROL_YAW_NEG
    \cup AGENT_CONTROL_PITCH_POS \cup AGENT_CONTROL_PITCH_NEG
    \cup AGENT_CONTROL_STOP
    \cup AGENT_CONTROL_FAST_AT
    \cup AGENT_CONTROL_FAST_LEFT
    \cup AGENT_CONTROL_FAST_UP

\* ------------------------------------------------------------ operations

\* a slip in addController: no test for a device that is already there
StatesAfterAdd_noCheck(id) == Append(mStates, NewDevice(id))

\* addController: mStates afterwards
StatesAfterAdd(id) ==
    IF findState(id) # 0 THEN mStates ELSE Append(mStates, NewDevice(id))

\* a slip in removeController: the predicate of remove_if is inverted
StatesAfterRemove_others(id) == SelectSeq(mStates, LAMBDA st : st.mJoystickID = id)

\* removeController: mStates afterwards
StatesAfterRemove(id) == SelectSeq(mStates, LAMBDA st : st.mJoystickID # id)

\* onAxis: mStates afterwards
StatesAfterAxis(id, axis, value) ==
    IF axis > MAX_AXIS \/ findState(id) = 0 THEN mStates
    ELSE [mStates EXCEPT ![findState(id)].mAxes[axis] = StoredAxisValue(axis, value)]

\* onButton: mStates afterwards
StatesAfterButton(id, button, pressed) ==
    IF findState(id) = 0 THEN mStates
    ELSE [mStates EXCEPT ![findState(id)].mButtons = ButtonsAfter(@, button, pressed)]

\* clearAllStates: mStates afterwards
StatesAfterClear == [k \in 1 .. Len(mStates) |-> ClearedState(mStates[k])]

\* LLGameControllerManager::addController
addController(id) ==
    /\ mStates' = StatesAfterAdd(id)
    /\ UNCHANGED <<extVars, accVars, g_finalState, schedVars, modeVars, mapVars, now,
                   packetDue, histVars, negVars, callVars, retVars, rtVars>>

\* LLGameControllerManager::removeController
removeController(id) ==
    /\ mStates' = StatesAfterRemove(id)
    /\ UNCHANGED <<extVars, accVars, g_finalState, schedVars, modeVars, mapVars, now,
                   packetDue, histVars, negVars, callVars, retVars, rtVars>>

\* LLGameControllerManager::onAxis
onAxis(id, axis, value) ==
    /\ mStates' = StatesAfterAxis(id, axis, value)
    /\ UNCHANGED <<extVars, accVars, g_finalState, schedVars, modeVars, mapVars, now,
                   packetDue, histVars, negVars, callVars, retVars, rtVars>>

\* LLGameControllerManager::onButton
onButton(id, button, pressed) ==
    /\ mStates' = StatesAfterButton(id, button, pressed)
    /\ UNCHANGED <<extVars, accVars, g_finalState, schedVars, modeVars, mapVars, now,
                   packetDue, histVars, negVars, callVars, retVars, rtVars>>

\* LLGameControl::clearAllStates
clearAllStates ==
    /\ mStates' = StatesAfterClear
    /\ mExternalState' = ClearedState(mExternalState)
    /\ mLastActiveFlags' = {}
    /\ mLastFlycamActionFlags' = {}
    /\ UNCHANGED <<accVars, g_finalState, schedVars, modeVars, mapVars, now,
                   packetDue, histVars, negVars,
                   callVars, retVars, rtVars>>

\* LLGameControllerManager::computeInternalActionFlags, with
\* LLGameControllerManager::accumulateInternalState
computeInternalActionFlags ==
    /\ mAxesAccumulator' = [i \in AxisIndex |-> SumAxis(mStates, i, Len(mStates))]
    /\ mButtonAccumulator' = OrButtons(mStates, Len(mStates))
    /\ internalActionFlags' = InternalActionFlags(g_controlAgent, mActionMap,
                                                  mAxesAccumulator', mButtonAccumulator')
    /\ UNCHANGED <<devVars, extVars, g_finalState, schedVars, modeVars, mapVars, now,
                   packetDue, histVars, negVars, callVars, updateActionMapResult,
                   flycamInputs, loadedSettings, rtVars>>

\* LLGameControllerManager::setExternalInput
setExternalInput(action_flags, buttons) ==
    /\ IF g_translateAgentActions
       THEN LET flags == action_flags \cap BITS_OF_INTEREST
                active_flags == flags \cap getMappedFlags(mActionMap)
            IN  IF active_flags # mLastActiveFlags
                THEN /\ mLastActiveFlags' = active_flags
                     /\ \E st \in computeStateFromFlags(mActionMap, flags) :
                           mExternalState' = [st EXCEPT !.mButtons = @ \cup buttons]
                ELSE /\ mExternalState' = [mExternalState EXCEPT !.mButtons = buttons]
                     /\ UNCHANGED mLastActiveFlags
       ELSE /\ mExternalState' = [mExternalState EXCEPT !.mButtons = buttons]
            /\ UNCHANGED mLastActiveFlags
    /\ UNCHANGED <<devVars, mLastFlycamActionFlags, accVars, g_finalState, schedVars,
                   modeVars, mapVars, now, packetDue, histVars, negVars,
                   callVars, retVars, rtVars>>

\* LLGameControl::computeFinalStateAndCheckForChanges, with
\* LLGameControllerManager::computeFinalState(g_finalState)
computeFinalStateAndCheckForChanges ==
    LET merged == MergedState(g_finalState)
        changed == MergeDetectsChange(g_finalState, merged)
        period == IF changed THEN U64Zero ELSE g_nextResendPeriod
    IN  /\ g_finalState' = merged
        /\ g_nextResendPeriod' = period
        /\ packetDue' = ShouldSend(g_sendToServer, g_lastSend, period, now)
        /\ changeSeen' = (changeSeen \/ changed)
        /\ sendsSinceChange' = IF changed THEN 0 ELSE sendsSinceChange
        /\ preChangeAxes' = IF changed THEN g_finalState.mAxes ELSE preChangeAxes
        /\ mAxesAccumulator' = AccumulatorAfterMerge(mAxesAccumulator, mExternalState.mAxes,
                                                    g_translateAgentActions)
        /\ UNCHANGED <<devVars, extVars, mButtonAccumulator, g_lastSend, modeVars, mapVars,
                       now, negVars,
                   callVars, retVars, rtVars>>

\* LLGameControl::updateResendPeriod, called at most limit times in a row with no
\* detected change in between
updateResendPeriodWithin(limit) ==
    /\ sendsSinceChange < limit
    /\ g_lastSend' = now
    /\ g_nextResendPeriod' = NextPeriod(g_nextResendPeriod)
    /\ g_finalState' = StateAfterSend(g_finalState, g_nextResendPeriod)
    /\ sendsSinceChange' = sendsSinceChange + 1
    /\ UNCHANGED <<devVars, extVars, accVars, modeVars, mapVars, now, packetDue,
                   changeSeen, preChangeAxes, negVars,
                   callVars, retVars, rtVars>>

\* LLGameControl::updateResendPeriod
updateResendPeriod == updateResendPeriodWithin(MaxResends)

\* LLGameControl::setSendToServer
setSendToServer(enable) ==
    /\ g_sendToServer' = enable
    /\ UNCHANGED <<devVars, extVars, accVars, g_finalState, schedVars, g_controlAgent,
                   g_translateAgentActions, g_agentControlMode, mapVars, now, packetDue, histVars, negVars,
                   callVars, retVars, rtVars>>

\* LLGameControl::setControlAgent
setControlAgent(enable) ==
    /\ g_controlAgent' = enable
    /\ UNCHANGED <<devVars, extVars, accVars, g_finalState, schedVars, g_sendToServer,
                   g_translateAgentActions, g_agentControlMode, mapVars, now, packetDue,
                   histVars, negVars, callVars, retVars, rtVars>>

\* LLGameControl::setTranslateAgentActions
setTranslateAgentActions(enable) ==
    /\ g_translateAgentActions' = enable
    /\ UNCHANGED <<devVars, extVars, accVars, g_finalState, schedVars, g_sendToServer,
                   g_controlAgent, g_agentControlMode, mapVars, now, packetDue, histVars, negVars,
                   callVars, retVars, rtVars>>

\* get_now_nsec: the steady clock moves on between two readings
Tick(d) ==
    /\ ~ U64Less(ClockHorizon, U64Add(now, d))
    /\ now' = U64Add(now, d)
    /\ UNCHANGED <<devVars, extVars, accVars, g_finalState, schedVars, modeVars, mapVars,
                   packetDue, histVars, negVars,
                   callVars, retVars, rtVars>>

\* an SDL event as the handlers below record it: its kind, the device it names,
\* whether that device was in mStates, the axis or button index, the value
Event(type, id, index, value) ==
    [type |-> type, id |-> id, known |-> findState(id) # 0, index |-> index,
     value |-> value]

NoEvent == [type |-> "none", id |-> 0, known |-> FALSE, index |-> 0, value |-> 0]

\* onControllerDeviceAdded, for a device that SDL can open
onControllerDeviceAdded(id) ==
    /\ mStates' = StatesAfterAdd(id)
    /\ lastEvent' = Event("added", id, 0, 0)
    /\ UNCHANGED <<extVars, accVars, g_finalState, schedVars, modeVars, mapVars, now,
                   packetDue, histVars, negVars, onButtonChanged, parsedName,
                   parsedChannel, retVars, rtVars>>

\* onControllerDeviceRemoved
onControllerDeviceRemoved(id) ==
    /\ mStates' = StatesAfterRemove(id)
    /\ lastEvent' = Event("removed", id, 0, 0)
    /\ UNCHANGED <<extVars, accVars, g_finalState, schedVars, modeVars, mapVars, now,
                   packetDue, histVars, negVars, onButtonChanged, parsedName,
                   parsedChannel, retVars, rtVars>>

\* onControllerAxis
onControllerAxis(id, axis, value) ==
    /\ mStates' = StatesAfterAxis(id, axis, value)
    /\ lastEvent' = Event("axis", id, axis, value)
    /\ UNCHANGED <<extVars, accVars, g_finalState, schedVars, modeVars, mapVars, now,
                   packetDue, histVars, negVars, onButtonChanged, parsedName,
                   parsedChannel, retVars, rtVars>>

\* onControllerButton; State::onButton is called for a known device only
onControllerButton(id, button, pressed) ==
    /\ mStates' = StatesAfterButton(id, button, pressed)
    /\ onButtonChanged' =
          IF findState(id) = 0 THEN onButtonChanged
          ELSE onButtonReturn(mStates[findState(id)].mButtons, button, pressed)
    /\ lastEvent' = Event("button", id, button, IF pressed THEN 1 ELSE 0)
    /\ UNCHANGED <<extVars, accVars, g_finalState, schedVars, modeVars, mapVars, now,
                   packetDue, histVars, negVars, parsedName, parsedChannel, retVars, rtVars>>

\* LLGameControl::processEvents(false): the window lacks focus, the pending events
\* are dropped and clearAllStates is called
processEventsUnfocused ==
    /\ mStates' = StatesAfterClear
    /\ mExternalState' = ClearedState(mExternalState)
    /\ mLastActiveFlags' = {}
    /\ mLastFlycamActionFlags' = {}
    /\ lastEvent' = [NoEvent EXCEPT !.type = "unfocused"]
    /\ UNCHANGED <<accVars, g_finalState, schedVars, modeVars, mapVars, now,
                   packetDue, histVars, negVars, onButtonChanged, parsedName,
                   parsedChannel, retVars, rtVars>>

\* LLGameControllerManager::setAnalogMappings
setAnalogMappings(pairs) ==
    /\ mActionMap' = MapAfterSetMappings(mActionMap, pairs, mAnalogActions, "AXIS",
                                         Len(mAnalogActions))
    /\ UNCHANGED <<devVars, extVars, accVars, g_finalState, schedVars, modeVars,
                   mFlycamChannels, now, packetDue, histVars, negVars, callVars, retVars, rtVars>>

\* LLGameControllerManager::setBinaryMappings
setBinaryMappings(pairs) ==
    /\ mActionMap' = MapAfterSetMappings(mActionMap, pairs, mBinaryActions, "BUTTON",
                                         Len(mBinaryActions))
    /\ UNCHANGED <<devVars, extVars, accVars, g_finalState, schedVars, modeVars,
                   mFlycamChannels, now, packetDue, histVars, negVars, callVars, retVars, rtVars>>

\* LLGameControllerManager::setFlycamMappings
setFlycamMappings(pairs) ==
    /\ mFlycamChannels' = FlycamAfterSetMappings(pairs)
    /\ UNCHANGED <<devVars, extVars, accVars, g_finalState, schedVars, modeVars,
                   mActionMap, now, packetDue, histVars, negVars, callVars, retVars, rtVars>>

\* no updateActionMap call yet
NoUpdate == [action |-> "", channel |-> channelNone, result |-> FALSE]

\* LLGameControllerManager::updateActionMap, with updateFlycamMap
updateActionMap(action, channel) ==
    /\ updateActionMapResult' =
          [action |-> action, channel |-> channel, result |-> action \in mActions]
    /\ mFlycamChannels' =
          IF action \in FlycamActionNames
          THEN [mFlycamChannels EXCEPT ![FlycamIndex(action)] = channel]
          ELSE mFlycamChannels
    /\ mActionMap' =
          IF action \in mActions \ FlycamActionNames
          THEN TranslatorUpdateMap(mActionMap, action, channel)
          ELSE mActionMap
    /\ UNCHANGED <<devVars, extVars, accVars, g_finalState, schedVars, modeVars,
                   now, packetDue, histVars, negVars, callVars, internalActionFlags,
                   flycamInputs, loadedSettings, rtVars>>

\* LLGameControl::initByDefault, with initializeMappingsByDefault
initByDefault ==
    /\ g_sendToServer' = FALSE
    /\ g_controlAgent' = FALSE
    /\ g_translateAgentActions' = FALSE
    /\ g_agentControlMode' = "avatar"
    /\ mActionMap' = ExpandedMappings(agent_defaults)
    /\ mFlycamChannels' = flycam_defaults
    /\ UNCHANGED <<devVars, extVars, accVars, g_finalState, schedVars,
                   now, packetDue, histVars, negVars, callVars, retVars, rtVars>>

\* a slip in getFlycamInputs: the difference of the triggers is not negated for a
\* channel on the right trigger
FlycamAxis_noNegation(channel, acc, oob) ==
    IF channel.mIndex = AXIS_TRIGGERLEFT \/ channel.mIndex = AXIS_TRIGGERRIGHT
    THEN ToS16(MinMax(acc[AXIS_TRIGGERLEFT] - acc[AXIS_TRIGGERRIGHT]))
    ELSE ToS16(MinMax(IF channel.mIndex \in AxisIndex THEN acc[channel.mIndex] ELSE oob))

\* getFlycamInputs: the S16 axis of one channel. The type of the channel is not
\* looked at. oob is what the read of mAxesAccumulator[channel.mIndex] yields when
\* the index is past the end of the vector.
FlycamAxis(channel, acc, oob) ==
    IF channel.mIndex = AXIS_TRIGGERLEFT \/ channel.mIndex = AXIS_TRIGGERRIGHT
    THEN LET total_axis == acc[AXIS_TRIGGERLEFT] - acc[AXIS_TRIGGERRIGHT]
         IN  ToS16(MinMax(IF channel.mIndex = AXIS_TRIGGERRIGHT THEN total_axis * (-1)
                          ELSE total_axis))
    ELSE ToS16(MinMax(IF channel.mIndex \in AxisIndex THEN acc[channel.mIndex] ELSE oob))

\* getFlycamInputs: the input pushed for one channel, F32(axis) / divisor * sign,
\* kept as its three parts
FlycamInput(channel, acc, oob) ==
    LET axis == FlycamAxis(channel, acc, oob)
    IN  [axis |-> axis, divisor |-> IF axis > 0 THEN 32767 ELSE 32768,
         sign |-> channel.mSign]

\* getFlycamInputs: the positions of mAxesAccumulator read for one channel
FlycamReads(channel) ==
    IF channel.mIndex = AXIS_TRIGGERLEFT \/ channel.mIndex = AXIS_TRIGGERRIGHT
    THEN {AXIS_TRIGGERLEFT, AXIS_TRIGGERRIGHT}
    ELSE {channel.mIndex}

\* what a read past the end of mAxesAccumulator may yield
OutOfBoundsReads == {0, 40000}

\* LLGameControllerManager::getFlycamInputs
getFlycamInputs ==
    /\ \E oob \in [{k \in 1 .. Len(mFlycamChannels) :
                       ~ (FlycamReads(mFlycamChannels[k]) \subseteq AxisIndex)}
                        -> OutOfBoundsReads] :
          flycamInputs' =
             [k \in 1 .. Len(mFlycamChannels) |->
                 FlycamInput(mFlycamChannels[k], mAxesAccumulator,
                             IF k \in DOMAIN oob THEN oob[k] ELSE 0)]
    /\ UNCHANGED <<devVars, extVars, accVars, g_finalState, schedVars, modeVars, mapVars,
                   now, packetDue, histVars, negVars, callVars, updateActionMapResult,
                   internalActionFlags, loadedSettings, rtVars>>

\* convertStringToAgentControlMode
convertStringToAgentControlMode(mode) ==
    IF mode = "none" THEN "none"
    ELSE IF mode = "flycam" THEN "flycam"
    ELSE "avatar"

\* A mapping string is the sequence of the mappings that splitString cuts it into
\* at the commas; the empty string has none. A mapping is the text before its
\* first colon (action), whether it has a colon, and the text after it (channel).
Mapping(action, colon, channel) == [action |-> action, colon |-> colon, channel |-> channel]

\* setMappings: the std::map pairs filled from a mapping string; a mapping with no
\* colon or with nothing before it is skipped, a later mapping of an action
\* overwrites an earlier one
SplitPairs(mappings) ==
    LET valid == {k \in 1 .. Len(mappings) : mappings[k].colon /\ mappings[k].action # ""}
    IN  [a \in {mappings[k].action : k \in valid} |->
            mappings[CHOOSE k \in valid :
                        /\ mappings[k].action = a
                        /\ \A j \in valid : mappings[j].action = a => j <= k].channel]

RECURSIVE getMappings(_, _, _, _)
\* getMappings: the mappings written for the first n actions, one for each action
\* whose channel is of the expected type; channels[k] is what getChannel returns
\* for actions[k]
getMappings(actions, type, channels, n) ==
    IF n = 0 THEN <<>>
    ELSE LET sofar == getMappings(actions, type, channels, n - 1)
         IN  IF channels[n].mType = type
             THEN Append(sofar, Mapping(actions[n], TRUE, getLocalName(channels[n])))
             ELSE sofar

\* LLGameControllerManager::getFlycamMappings, its result kept
getFlycamMappings ==
    /\ savedCount = 0
    /\ savedMappings' = getMappings(mFlycamActions, "AXIS", mFlycamChannels,
                                    Len(mFlycamActions))
    /\ savedChannels' = mFlycamChannels
    /\ savedCount' = 1
    /\ UNCHANGED <<devVars, extVars, accVars, g_finalState, schedVars, modeVars, mapVars,
                   now, packetDue, histVars, negVars, callVars, retVars, rtAxes,
                   rtButtons, rtFlags, rtBack, rtFlagsBack, rtCount>>

\* LLGameControllerManager::setFlycamMappings on the string that getFlycamMappings
\* returned
setFlycamMappingsSaved ==
    /\ savedCount = 1
    /\ mFlycamChannels' = FlycamAfterSetMappings(SplitPairs(savedMappings))
    /\ savedCount' = 2
    /\ UNCHANGED <<devVars, extVars, accVars, g_finalState, schedVars, modeVars,
                   mActionMap, now, packetDue, histVars, negVars, callVars, retVars,
                   rtAxes, rtButtons, rtFlags, rtBack, rtFlagsBack, rtCount,
                   savedMappings, savedChannels>>

\* the settings store with no setting in it, not read yet
NoSettings ==
    [read |-> FALSE,
     settings |-> [sendToServer |-> FALSE, controlAgent |-> FALSE,
                   translateActions |-> FALSE, agentControlMode |-> "",
                   analogMappings |-> <<>>, binaryMappings |-> <<>>,
                   flycamMappings |-> <<>>]]

\* a slip in loadFromSettings: the defaults are installed for absent settings only
LoadInstallsDefaults_absentOnly(analog, binary, flycam, mappedFlags) ==
    analog = <<>> /\ binary = <<>> /\ flycam = <<>>

\* loadFromSettings: whether initializeMappingsByDefault is called, given the three
\* stored mapping strings and what getMappedFlags returns once they are restored
LoadInstallsDefaults(analog, binary, flycam, mappedFlags) ==
    \/ analog = <<>> /\ binary = <<>> /\ flycam = <<>>
    \/ mappedFlags = {}

\* loadFromSettings: the translator's map once setAnalogMappings and
\* setBinaryMappings have restored the stored strings
RestoredActionMap(settings) ==
    MapAfterSetMappings(
        MapAfterSetMappings(mActionMap, SplitPairs(settings.analogMappings),
                            mAnalogActions, "AXIS", Len(mAnalogActions)),
        SplitPairs(settings.binaryMappings), mBinaryActions, "BUTTON",
        Len(mBinaryActions))

\* LLGameControl::loadFromSettings; settings is what s_loadBoolean and s_loadString
\* return for the seven settings
loadFromSettings(settings) ==
    LET restored == RestoredActionMap(settings)
        defaults == LoadInstallsDefaults(settings.analogMappings, settings.binaryMappings,
                                         settings.flycamMappings, getMappedFlags(restored))
    IN  /\ g_sendToServer' = settings.sendToServer
        /\ g_controlAgent' = settings.controlAgent
        /\ g_translateAgentActions' = settings.translateActions
        /\ g_agentControlMode' = convertStringToAgentControlMode(settings.agentControlMode)
        /\ mActionMap' = IF defaults THEN ExpandedMappings(agent_defaults) ELSE restored
        /\ mFlycamChannels' =
              IF defaults THEN flycam_defaults
              ELSE FlycamAfterSetMappings(SplitPairs(settings.flycamMappings))
        /\ loadedSettings' = [read |-> TRUE, settings |-> settings]
        /\ UNCHANGED <<devVars, extVars, accVars, g_finalState, schedVars,
                       now, packetDue, histVars, negVars, callVars,
                       updateActionMapResult, internalActionFlags, flycamInputs, rtVars>>

\* the place of a result before the call is made
channelUnset == Channel("UNSET", 0, 0)

\* a call of LLGameControl::getChannelByName, with its argument and result kept
callGetChannelByName(name) ==
    /\ parsedName' = name
    /\ parsedChannel' = getChannelByName(name)
    /\ UNCHANGED <<devVars, extVars, accVars, g_finalState, schedVars, modeVars,
                   mapVars, now, packetDue, histVars, negVars, lastEvent,
                   onButtonChanged, retVars, rtVars>>

\* the onAxis storage rule applied to a raw value, and once more to what was stored
NegateOnce ==
    /\ negCount = 0
    /\ negOnce' = NegatedRaw(negAxis, negRaw)
    /\ negCount' = 1
    /\ UNCHANGED <<devVars, extVars, accVars, g_finalState, schedVars, modeVars, mapVars,
                   now, packetDue, histVars, negAxis, negRaw, negTwice,
                   callVars, retVars, rtVars>>

NegateTwice ==
    /\ negCount = 1
    /\ negTwice' = NegatedRaw(negAxis, ToS16(negOnce))
    /\ negCount' = 2
    /\ UNCHANGED <<devVars, extVars, accVars, g_finalState, schedVars, modeVars, mapVars,
                   now, packetDue, histVars, negAxis, negRaw, negOnce,
                   callVars, retVars, rtVars>>

\* a State through the translator and back: axes and buttons to flags, the flags
\* to a State, that State to flags again
RoundTripFlags ==
    /\ rtCount = 0
    /\ rtFlags' = computeFlagsFromState(mActionMap, rtAxes, rtButtons)
    /\ rtCount' = 1
    /\ UNCHANGED <<devVars, extVars, accVars, g_finalState, schedVars, modeVars, mapVars,
                   now, packetDue, histVars, negVars, callVars, retVars, rtAxes,
                   rtButtons, rtBack, rtFlagsBack,
                   savedMappings, savedChannels, savedCount>>

RoundTripState ==
    /\ rtCount = 1
    /\ rtBack' \in computeStateFromFlags(mActionMap, rtFlags)
    /\ rtCount' = 2
    /\ UNCHANGED <<devVars, extVars, accVars, g_finalState, schedVars, modeVars, mapVars,
                   now, packetDue, histVars, negVars, callVars, retVars, rtAxes,
                   rtButtons, rtFlags, rtFlagsBack,
                   savedMappings, savedChannels, savedCount>>

RoundTripFlagsAgain ==
    /\ rtCount = 2
    /\ rtFlagsBack' = computeFlagsFromState(mActionMap, rtBack.mAxes, rtBack.mButtons)
    /\ rtCount' = 3
    /\ UNCHANGED <<devVars, extVars, accVars, g_finalState, schedVars, modeVars, mapVars,
                   now, packetDue, histVars, negVars, callVars, retVars, rtAxes,
                   rtButtons, rtFlags, rtBack,
                   savedMappings, savedChannels, savedCount>>

\* ------------------------------------------------------------ specifications

\* the state after construction (static initialisation and the constructors)
Init ==
    /\ mStates = <<>>
    /\ mExternalState = NewState
    /\ mAxesAccumulator = ZeroAxes
    /\ mButtonAccumulator = {}
    /\ mLastActiveFlags = {}
    /\ mLastFlycamActionFlags = {}
    /\ g_finalState = NewState
    /\ g_lastSend = U64Zero
    /\ g_nextResendPeriod = FIRST_RESEND_PERIOD
    /\ g_sendToServer = FALSE
    /\ g_controlAgent = FALSE
    /\ g_translateAgentActions = FALSE
    /\ g_agentControlMode = "avatar"
    /\ mActionMap = ExpandedMappings(agent_defaults)
    /\ now = U64Zero
    /\ packetDue = FALSE
    /\ changeSeen = FALSE
    /\ sendsSinceChange = 0
    /\ preChangeAxes = ZeroAxes
    /\ negAxis = 0
    /\ negRaw = 0
    /\ negOnce = 0
    /\ negTwice = 0
    /\ negCount = 0
    /\ mFlycamChannels = flycam_defaults
    /\ lastEvent = [type |-> "none", id |-> 0, known |-> FALSE, index |-> 0, value |-> 0]
    /\ onButtonChanged = FALSE
    /\ parsedName = <<>>
    /\ parsedChannel = channelNone
    /\ updateActionMapResult = NoUpdate
    /\ internalActionFlags = {}
    /\ flycamInputs = <<>>
    /\ loadedSettings = NoSettings
    /\ rtAxes = ZeroAxes
    /\ rtButtons = {}
    /\ rtFlags = {}
    /\ rtBack = NewState
    /\ rtFlagsBack = {}
    /\ rtCount = 0
    /\ savedMappings = <<>>
    /\ savedChannels = <<>>
    /\ savedCount = 0

\* Inputs of the merge specification: one device, the left stick's Y axis (the
\* default "push" axis) and an axis index past MAX_AXIS, the extreme raw values, one
\* button, and agent flags that deflect the same axis either way ("stop" is bound
\* to a button by default).
DeviceIds == {1}
AxisInputs == {1, NUM_AXES}
RawValues == {S16_MIN, S16_MAX}
ButtonInputs == {0}
FlagInputs == {{}, actionMasks["push+"] \cup actionMasks["stop"], actionMasks["push-"]}
ExtButtonInputs == {{}}

Next ==
    \/ \E id \in DeviceIds : addController(id)
    \/ \E id \in DeviceIds : removeController(id)
    \/ \E id \in DeviceIds, axis \in AxisInputs, value \in RawValues :
          onAxis(id, axis, value)
    \/ \E id \in DeviceIds, button \in ButtonInputs, pressed \in BOOLEAN :
          onButton(id, button, pressed)
    \/ clearAllStates
    \/ computeInternalActionFlags
    \/ \E flags \in FlagInputs, buttons \in ExtButtonInputs :
          setExternalInput(flags, buttons)
    \/ \E enable \in BOOLEAN : setTranslateAgentActions(enable)
    \/ computeFinalStateAndCheckForChanges
    \/ updateResendPeriod

\* the aggregation and merge path, with the clock standing still
Spec == Init /\ [][Next]_vars

\* Inputs of the scheduler specification: one device moving one axis between
\* rest, a partial and the full deflection, the send-to-server switch, and the clock.
SchedRawValues == {S16_MIN, -20000, 0}

NextSched ==
    \/ addController(1)
    \/ \E value \in SchedRawValues : onAxis(1, 1, value)
    \/ computeInternalActionFlags
    \/ \E enable \in BOOLEAN : setSendToServer(enable)
    \/ computeFinalStateAndCheckForChanges
    \/ updateResendPeriod
    \/ \E d \in TickSteps : Tick(d)

\* the resend scheduler against the clock
SpecSched == Init /\ [][NextSched]_vars

\* every raw S16 value, on the first and on the last stick axis
InitNegate ==
    /\ mStates = <<>>
    /\ mExternalState = NewState
    /\ mAxesAccumulator = ZeroAxes
    /\ mButtonAccumulator = {}
    /\ mLastActiveFlags = {}
    /\ mLastFlycamActionFlags = {}
    /\ g_finalState = NewState
    /\ g_lastSend = U64Zero
    /\ g_nextResendPeriod = FIRST_RESEND_PERIOD
    /\ g_sendToServer = FALSE
    /\ g_controlAgent = FALSE
    /\ g_translateAgentActions = FALSE
    /\ g_agentControlMode = "avatar"
    /\ mActionMap = ExpandedMappings(agent_defaults)
    /\ now = U64Zero
    /\ packetDue = FALSE
    /\ changeSeen = FALSE
    /\ sendsSinceChange = 0
    /\ preChangeAxes = ZeroAxes
    /\ negAxis \in {0, AXIS_TRIGGERLEFT - 1}
    /\ negRaw \in S16_MIN .. S16_MAX
    /\ negOnce = 0
    /\ negTwice = 0
    /\ negCount = 0
    /\ mFlycamChannels = flycam_defaults
    /\ lastEvent = [type |-> "none", id |-> 0, known |-> FALSE, index |-> 0, value |-> 0]
    /\ onButtonChanged = FALSE
    /\ parsedName = <<>>
    /\ parsedChannel = channelNone
    /\ updateActionMapResult = NoUpdate
    /\ internalActionFlags = {}
    /\ flycamInputs = <<>>
    /\ loadedSettings = NoSettings
    /\ rtAxes = ZeroAxes
    /\ rtButtons = {}
    /\ rtFlags = {}
    /\ rtBack = NewState
    /\ rtFlagsBack = {}
    /\ rtCount = 0
    /\ savedMappings = <<>>
    /\ savedChannels = <<>>
    /\ savedCount = 0

NextNegate == NegateOnce \/ NegateTwice

\* the onAxis storage rule as a function of the raw value
SpecNegate == InitNegate /\ [][NextNegate]_vars

\* Inputs of the device specification: two devices; axis events <<axis, value>> on
\* a stick axis with a raw value of either sign and zero, on a trigger axis and on
\* an axis index past MAX_AXIS; the first and the last button and a button index
\* past MAX_BUTTON.
DevIds == {1, 2}
DevAxisEvents == {<<1, -20000>>, <<1, 0>>, <<1, 20000>>, <<AXIS_TRIGGERLEFT, 20000>>,
                  <<NUM_AXES, 20000>>}
DevButtonInputs == {0, MAX_BUTTON, NUM_BUTTONS}

NextDev ==
    \/ \E id \in DevIds : onControllerDeviceAdded(id)
    \/ \E id \in DevIds : onControllerDeviceRemoved(id)
    \/ \E id \in DevIds, ev \in DevAxisEvents : onControllerAxis(id, ev[1], ev[2])
    \/ \E id \in DevIds, button \in DevButtonInputs, pressed \in BOOLEAN :
          onControllerButton(id, button, pressed)
    \/ processEventsUnfocused

\* the device table under SDL's events
SpecDev == Init /\ [][NextDev]_vars

\* Inputs of the accumulation specification: the two devices and their axis events
\* as above, presses of the first and the last button.
AccButtonInputs == {0, MAX_BUTTON}

NextAcc ==
    \/ \E id \in DevIds : addController(id)
    \/ \E id \in DevIds : removeController(id)
    \/ \E id \in DevIds, ev \in DevAxisEvents : onAxis(id, ev[1], ev[2])
    \/ \E id \in DevIds, button \in AccButtonInputs : onButton(id, button, TRUE)
    \/ computeInternalActionFlags

\* accumulation over devices connected in either order
SpecAcc == Init /\ [][NextAcc]_vars

\* Inputs of the focus-loss specification: one device with a deflected stick and a
\* pressed button, agent flags that deflect the same axis and press a button, and
\* the merge and the sends that follow.
ClearFlagInputs == {actionMasks["push+"] \cup actionMasks["stop"]}

NextClear ==
    \/ addController(1)
    \/ onAxis(1, 1, S16_MIN)
    \/ onButton(1, 0, TRUE)
    \/ \E flags \in ClearFlagInputs : setExternalInput(flags, {})
    \/ \E enable \in BOOLEAN : setTranslateAgentActions(enable)
    \/ computeInternalActionFlags
    \/ computeFinalStateAndCheckForChanges
    \/ updateResendPeriod
    \/ processEventsUnfocused

\* the window losing focus in the middle of input
SpecClear == Init /\ [][NextClear]_vars

\* Inputs of the name specification: the two prefixes of the grammar, whole and cut
\* short or in lower case, and other words, followed by up to MaxSuffix characters
\* out of digits, signs, a letter and a blank.
NamePrefixes ==
    {<<>>, PrefixAxis, PrefixButton, <<"A", "X", "I", "S">>, <<"B", "U", "T", "T", "O", "N">>,
     <<"a", "x", "i", "s", "_">>, <<"N", "O", "N", "E">>}
SuffixChars == {"0", "1", "3", "5", "6", "9", "+", "-", "x", " "}
ChannelNames ==
    {prefix \o suffix : prefix \in NamePrefixes,
                        suffix \in UNION {[1 .. n -> SuffixChars] : n \in 0 .. MaxSuffix}}

\* every name, with getChannelByName not yet called on it
InitParse ==
    /\ mStates = <<>>
    /\ mExternalState = NewState
    /\ mAxesAccumulator = ZeroAxes
    /\ mButtonAccumulator = {}
    /\ mLastActiveFlags = {}
    /\ mLastFlycamActionFlags = {}
    /\ g_finalState = NewState
    /\ g_lastSend = U64Zero
    /\ g_nextResendPeriod = FIRST_RESEND_PERIOD
    /\ g_sendToServer = FALSE
    /\ g_controlAgent = FALSE
    /\ g_translateAgentActions = FALSE
    /\ g_agentControlMode = "avatar"
    /\ mActionMap = ExpandedMappings(agent_defaults)
    /\ now = U64Zero
    /\ packetDue = FALSE
    /\ changeSeen = FALSE
    /\ sendsSinceChange = 0
    /\ preChangeAxes = ZeroAxes
    /\ negAxis = 0
    /\ negRaw = 0
    /\ negOnce = 0
    /\ negTwice = 0
    /\ negCount = 0
    /\ mFlycamChannels = flycam_defaults
    /\ lastEvent = [type |-> "none", id |-> 0, known |-> FALSE, index |-> 0, value |-> 0]
    /\ onButtonChanged = FALSE
    /\ parsedName \in ChannelNames
    /\ parsedChannel = channelUnset
    /\ updateActionMapResult = NoUpdate
    /\ internalActionFlags = {}
    /\ flycamInputs = <<>>
    /\ loadedSettings = NoSettings
    /\ rtAxes = ZeroAxes
    /\ rtButtons = {}
    /\ rtFlags = {}
    /\ rtBack = NewState
    /\ rtFlagsBack = {}
    /\ rtCount = 0
    /\ savedMappings = <<>>
    /\ savedChannels = <<>>
    /\ savedCount = 0

NextParse == parsedChannel = channelUnset /\ callGetChannelByName(parsedName)

\* getChannelByName as a function of the name
SpecParse == InitParse /\ [][NextParse]_vars

\* Inputs of the mapping specification: channel names inside the grammar, with an
\* index inside and outside the range of the type; mapping strings that bind one
\* action of a family to one of these names, and the empty mapping string; calls
\* of updateActionMap for a flycam action, a signed analog action and a name that
\* is no action and an analog action named without a sign, with the channels
\* getChannelByName returns for these names.
MapChannelNames ==
    {PrefixAxis \o <<"3", "-">>, PrefixAxis \o <<"9">>, PrefixButton \o <<"5">>}
PairsFor(action) ==
    {[a \in {action} |-> name] : name \in MapChannelNames} \cup {[a \in {} |-> <<>>]}
MapUpdateActions == {"zoom", "push-", "fire", "push"}

NextMap ==
    \/ \E name \in MapChannelNames : callGetChannelByName(name)
    \/ \E pairs \in PairsFor("push") : setAnalogMappings(pairs)
    \/ \E pairs \in PairsFor("stop") : setBinaryMappings(pairs)
    \/ \E pairs \in PairsFor("advance") : setFlycamMappings(pairs)
    \/ \E action \in MapUpdateActions, name \in MapChannelNames :
          updateActionMap(action, getChannelByName(name))
    \/ initByDefault

\* the action map and the flycam table under the mapping operations
SpecMap == Init /\ [][NextMap]_vars

\* Inputs of the settings specification: three settings of the three switches; the
\* mode strings of the two named modes and the empty string; stored mapping strings
\* that are empty, that bind one action, that have no colon, that name no action,
\* and that bind an action to a channel of the wrong type. Each load finds the
\* mappings that the load before it left.
LoadModeStrings == {"", "flycam", "none"}
LoadAnalogStrings ==
    {<<>>,
     <<Mapping("push", TRUE, PrefixAxis \o <<"3", "-">>)>>,
     <<Mapping("", TRUE, PrefixAxis \o <<"3", "-">>), Mapping("push", FALSE, <<>>)>>,
     <<Mapping("push", TRUE, PrefixButton \o <<"5">>),
       Mapping("fire", TRUE, PrefixAxis \o <<"3", "-">>)>>}
LoadBinaryStrings ==
    {<<>>, <<Mapping("stop", TRUE, PrefixButton \o <<"5">>)>>}
LoadFlycamStrings ==
    {<<>>, <<Mapping("advance", TRUE, PrefixAxis \o <<"3", "-">>)>>,
     <<Mapping("zoom", TRUE, <<"N", "O", "N", "E">>)>>}
LoadSwitches == {<<FALSE, FALSE, FALSE>>, <<TRUE, FALSE, TRUE>>, <<FALSE, TRUE, FALSE>>}
LoadSettings ==
    {[sendToServer |-> switches[1], controlAgent |-> switches[2],
      translateActions |-> switches[3], agentControlMode |-> mode,
      analogMappings |-> analog, binaryMappings |-> binary, flycamMappings |-> flycam] :
        switches \in LoadSwitches, mode \in LoadModeStrings, analog \in LoadAnalogStrings,
        binary \in LoadBinaryStrings, flycam \in LoadFlycamStrings}

NextLoad == \E settings \in LoadSettings : loadFromSettings(settings)

\* the settings store read back at start-up
SpecLoad == Init /\ [][NextLoad]_vars

\* Inputs of the translator specification. Mappings: the defaults; turn moved onto
\* the axis of push with the opposite sign, so that two actions share each
\* direction of one axis; jump unbound and toggle_run moved onto the button of stop;
\* the lower half of push bound to a button. States: every axis at rest, barely
\* positive or fully negative, and any of three buttons.
TransMappings ==
    {ExpandedMappings(agent_defaults),
     TranslatorUpdateMap(ExpandedMappings(agent_defaults), "turn", Channel("AXIS", 1, -1)),
     TranslatorUpdateMap(TranslatorUpdateMap(ExpandedMappings(agent_defaults), "jump",
                                             channelNone),
                         "toggle_run", Channel("BUTTON", 7, 0)),
     TranslatorUpdateMap(ExpandedMappings(agent_defaults), "push-", Channel("BUTTON", 11, 0))}
TransAxisValues == {S16_MIN, 0, 1}
TransButtons == {7, 9, 11}

\* every mapping with every State, not yet translated
InitTrans ==
    /\ mStates = <<>>
    /\ mExternalState = NewState
    /\ mAxesAccumulator = ZeroAxes
    /\ mButtonAccumulator = {}
    /\ mLastActiveFlags = {}
    /\ mLastFlycamActionFlags = {}
    /\ g_finalState = NewState
    /\ g_lastSend = U64Zero
    /\ g_nextResendPeriod = FIRST_RESEND_PERIOD
    /\ g_sendToServer = FALSE
    /\ g_controlAgent = FALSE
    /\ g_translateAgentActions = FALSE
    /\ g_agentControlMode = "avatar"
    /\ mActionMap \in TransMappings
    /\ now = U64Zero
    /\ packetDue = FALSE
    /\ changeSeen = FALSE
    /\ sendsSinceChange = 0
    /\ preChangeAxes = ZeroAxes
    /\ negAxis = 0
    /\ negRaw = 0
    /\ negOnce = 0
    /\ negTwice = 0
    /\ negCount = 0
    /\ mFlycamChannels = flycam_defaults
    /\ lastEvent = NoEvent
    /\ onButtonChanged = FALSE
    /\ parsedName = <<>>
    /\ parsedChannel = channelNone
    /\ updateActionMapResult = NoUpdate
    /\ internalActionFlags = {}
    /\ flycamInputs = <<>>
    /\ loadedSettings = NoSettings
    /\ rtAxes \in [AxisIndex -> TransAxisValues]
    /\ rtButtons \in SUBSET TransButtons
    /\ rtFlags = {}
    /\ rtBack = NewState
    /\ rtFlagsBack = {}
    /\ rtCount = 0
    /\ savedMappings = <<>>
    /\ savedChannels = <<>>
    /\ savedCount = 0

NextTrans == RoundTripFlags \/ RoundTripState \/ RoundTripFlagsAgain

\* the translator's two conversions as functions of the mapping and the State
SpecTrans == InitTrans /\ [][NextTrans]_vars

\* Inputs of the flycam specification: two devices reporting their triggers, the
\* left one at 10000 or 20000 and the right one at 3000 or 20000, so that the
\* differences of the sums lie inside and outside the S16 range; the rise slot
\* rebound to the left trigger or to the right trigger with the other sign, and the
\* defaults restored.
FlycamAxisEvents ==
    {<<1, AXIS_TRIGGERLEFT, 10000>>, <<1, AXIS_TRIGGERRIGHT, 3000>>,
     <<2, AXIS_TRIGGERLEFT, 20000>>, <<1, AXIS_TRIGGERLEFT, 20000>>,
     <<2, AXIS_TRIGGERRIGHT, 20000>>, <<1, AXIS_TRIGGERRIGHT, 20000>>}
FlycamRiseChannels ==
    {Channel("AXIS", AXIS_TRIGGERLEFT, 1), Channel("AXIS", AXIS_TRIGGERRIGHT, -1)}

NextFlycam ==
    \/ \E id \in DevIds : addController(id)
    \/ \E ev \in FlycamAxisEvents : onAxis(ev[1], ev[2], ev[3])
    \/ computeInternalActionFlags
    \/ \E channel \in FlycamRiseChannels : updateActionMap("rise", channel)
    \/ initByDefault
    \/ getFlycamInputs

\* the flycam inputs from the triggers of two devices
SpecFlycam == Init /\ [][NextFlycam]_vars

NextLeak ==
    \/ \E id \in DeviceIds : addController(id)
    \/ \E id \in DeviceIds, axis \in AxisInputs, value \in RawValues :
          onAxis(id, axis, value)
    \/ computeInternalActionFlags
    \/ \E flags \in FlagInputs, buttons \in ExtButtonInputs :
          setExternalInput(flags, buttons)
    \/ \E enable \in BOOLEAN : setTranslateAgentActions(enable)
    \/ computeFinalStateAndCheckForChanges
    \/ getFlycamInputs

\* the flycam inputs next to the merge of the external state
SpecLeak == Init /\ [][NextLeak]_vars

\* the button the stop action is bound to by default
AgentButtonInputs == {7}

NextAgent ==
    \/ \E id \in DeviceIds : addController(id)
    \/ \E id \in DeviceIds, axis \in AxisInputs, value \in RawValues :
          onAxis(id, axis, value)
    \/ \E id \in DeviceIds, button \in AgentButtonInputs, pressed \in BOOLEAN :
          onButton(id, button, pressed)
    \/ \E flags \in FlagInputs, buttons \in ExtButtonInputs :
          setExternalInput(flags, buttons)
    \/ \E enable \in BOOLEAN : setTranslateAgentActions(enable)
    \/ \E enable \in BOOLEAN : setControlAgent(enable)
    \/ computeInternalActionFlags

\* the agent flags computed from the devices, next to the external state
SpecAgent == Init /\ [][NextAgent]_vars

NextBackoff ==
    \/ \E enable \in BOOLEAN : setSendToServer(enable)
    \/ computeFinalStateAndCheckForChanges
    \/ updateResendPeriodWithin(MaxBackoff)
    \/ \E d \in TickSteps : Tick(d)

\* sends in a row with no change of input, as many as MaxBackoff
SpecBackoff == Init /\ [][NextBackoff]_vars

\* Channels handed to updateActionMap for a flycam action: a BUTTON channel, the
\* none channel and an AXIS channel
FlycamUpdateChannels ==
    {Channel("BUTTON", 7, 0), channelNone, Channel("AXIS", 3, -1)}

NextFlycamMap ==
    \/ initByDefault
    \/ \E pairs \in PairsFor("advance") : setFlycamMappings(pairs)
    \/ \E channel \in FlycamUpdateChannels : updateActionMap("zoom", channel)
    \/ getFlycamInputs

\* the flycam inputs under every way of filling the flycam table
SpecFlycamMap == Init /\ [][NextFlycamMap]_vars

\* Inputs of the mapping string round trip: flycam tables whose slots are none or an
\* AXIS channel with an index below NUM_AXES and a sign. Three slots take every such
\* channel while the other three keep their defaults, for the first three and for
\* the last three slots.
RoundSlotChannels ==
    {Channel("NONE", 0, 0), channelNone}
    \cup {Channel("AXIS", i, sign) : i \in AxisIndex, sign \in {-1, 1}}
RoundTables ==
    {[k \in 1 .. 6 |-> IF k <= 3 THEN t[k] ELSE flycam_defaults[k]] :
        t \in [1 .. 3 -> RoundSlotChannels]}
    \cup {[k \in 1 .. 6 |-> IF k > 3 THEN t[k - 3] ELSE flycam_defaults[k]] :
             t \in [1 .. 3 -> RoundSlotChannels]}

InitRound ==
    /\ mStates = <<>>
    /\ mExternalState = NewState
    /\ mAxesAccumulator = ZeroAxes
    /\ mButtonAccumulator = {}
    /\ mLastActiveFlags = {}
    /\ mLastFlycamActionFlags = {}
    /\ g_finalState = NewState
    /\ g_lastSend = U64Zero
    /\ g_nextResendPeriod = FIRST_RESEND_PERIOD
    /\ g_sendToServer = FALSE
    /\ g_controlAgent = FALSE
    /\ g_translateAgentActions = FALSE
    /\ g_agentControlMode = "avatar"
    /\ mActionMap = ExpandedMappings(agent_defaults)
    /\ now = U64Zero
    /\ packetDue = FALSE
    /\ changeSeen = FALSE
    /\ sendsSinceChange = 0
    /\ preChangeAxes = ZeroAxes
    /\ negAxis = 0
    /\ negRaw = 0
    /\ negOnce = 0
    /\ negTwice = 0
    /\ negCount = 0
    /\ mFlycamChannels \in RoundTables
    /\ lastEvent = NoEvent
    /\ onButtonChanged = FALSE
    /\ parsedName = <<>>
    /\ parsedChannel = channelNone
    /\ updateActionMapResult = NoUpdate
    /\ internalActionFlags = {}
    /\ flycamInputs = <<>>
    /\ loadedSettings = NoSettings
    /\ rtAxes = ZeroAxes
    /\ rtButtons = {}
    /\ rtFlags = {}
    /\ rtBack = NewState
    /\ rtFlagsBack = {}
    /\ rtCount = 0
    /\ savedMappings = <<>>
    /\ savedChannels = <<>>
    /\ savedCount = 0

NextRound == getFlycamMappings \/ setFlycamMappingsSaved

\* a flycam table written to its mapping string and read back
SpecRound == InitRound /\ [][NextRound]_vars

\* ------------------------------------------------------------ properties

Ms(n) == U64Mul(MSEC_PER_NSEC, n)
FinalAxesChangedAt(i) == preChangeAxes[i] # g_finalState.mAxes[i]

\* C1: in a sequence [change, send, no-change resend], after the first send the
\* changed axes still carry their pre-change value in prevAxes; after the second
\* send prevAxes equals axes on every axis.
C1_PrevAxesAcrossResends ==
    /\ (changeSeen /\ sendsSinceChange = 1) =>
          \A i \in AxisIndex :
              FinalAxesChangedAt(i) => g_finalState.mPrevAxes[i] = preChangeAxes[i]
    /\ (changeSeen /\ sendsSinceChange = 2) =>
          g_finalState.mPrevAxes = g_finalState.mAxes

\* an axis changed, and two sends followed with no change detected in between
C1_Witness ==
    /\ changeSeen
    /\ sendsSinceChange = 2
    /\ \E i \in AxisIndex : FinalAxesChangedAt(i)

\* C2: the first three sends after a detected change leave the next-resend
\* interval at 100 ms, 1000 ms and 10000 ms; the interval starts at 100 ms.
C2_BackoffIntervals ==
    /\ (~ changeSeen /\ sendsSinceChange = 0) => g_nextResendPeriod = Ms(100)
    /\ (changeSeen /\ sendsSinceChange = 1) => g_nextResendPeriod = Ms(100)
    /\ (changeSeen /\ sendsSinceChange = 2) => g_nextResendPeriod = Ms(1000)
    /\ (changeSeen /\ sendsSinceChange = 3) => g_nextResendPeriod = Ms(10000)

\* three sends after a detected change
C2_Witness == changeSeen /\ sendsSinceChange = 3 /\ g_nextResendPeriod = Ms(10000)

\* what a merge publishes on axis i, from the accumulators as they stand
ClampedSum(i) ==
    LET sum == mAxesAccumulator[i]
               + (IF g_translateAgentActions THEN mExternalState.mAxes[i] ELSE 0)
    IN  IF sum < -32768 THEN -32768 ELSE IF sum > 32767 THEN 32767 ELSE sum

FinalChanges ==
    \/ g_finalState'.mButtons # g_finalState.mButtons
    \/ g_finalState'.mAxes # g_finalState.mAxes

\* C3: whatever the next-resend interval is, a computeFinalState call that changes
\* the final button mask or a clamped final axis sets the interval to 0, and one
\* that changes neither leaves the interval as it was.
C3_ChangeResetsInterval ==
    [][computeFinalStateAndCheckForChanges =>
          g_nextResendPeriod' = IF FinalChanges THEN U64Zero ELSE g_nextResendPeriod]_vars

\* a change was detected while the scheduler had backed off: the buttons changed,
\* no axis did, and the interval is 0
C3_Witness ==
    /\ changeSeen
    /\ sendsSinceChange = 0
    /\ g_nextResendPeriod = U64Zero
    /\ g_finalState.mButtons # {}
    /\ g_finalState.mAxes = ZeroAxes
    /\ g_finalState.mPrevAxes = ZeroAxes

\* C4: the packet-due result is send-to-server AND lastSend + interval < now, with
\* the interval as the merge left it; it is never true while send-to-server is off,
\* and it is false when now equals lastSend.
C4_PacketDue ==
    [][computeFinalStateAndCheckForChanges =>
          /\ packetDue' = (g_sendToServer
                           /\ U64Less(U64Add(g_lastSend, g_nextResendPeriod'), now))
          /\ (~ g_sendToServer => ~ packetDue')
          /\ (now = g_lastSend => ~ packetDue')]_vars

\* a packet is due because a non-zero interval has run out
C4_Witness ==
    /\ packetDue
    /\ g_sendToServer
    /\ g_nextResendPeriod # U64Zero
    /\ U64Less(U64Add(g_lastSend, g_nextResendPeriod), now)

\* C5: updateResendPeriod sets lastSend to now; an interval of 0 becomes 100 ms and
\* prevAxes stays; any other interval is multiplied by 10 and prevAxes becomes axes;
\* axes and buttons stay on both branches.
C5_OnSent ==
    [][updateResendPeriod =>
          /\ g_lastSend' = now
          /\ g_finalState'.mAxes = g_finalState.mAxes
          /\ g_finalState'.mButtons = g_finalState.mButtons
          /\ IF g_nextResendPeriod = U64Zero
             THEN /\ g_nextResendPeriod' = Ms(100)
                  /\ g_finalState'.mPrevAxes = g_finalState.mPrevAxes
             ELSE /\ g_nextResendPeriod' = U64Mul(g_nextResendPeriod, 10)
                  /\ g_finalState'.mPrevAxes = g_finalState.mAxes]_vars

\* both branches were taken after a change, the second at a later clock reading
C5_Witness ==
    /\ changeSeen
    /\ sendsSinceChange = 2
    /\ g_nextResendPeriod = Ms(1000)
    /\ g_lastSend # U64Zero
    /\ g_finalState.mAxes # ZeroAxes
    /\ g_finalState.mPrevAxes = g_finalState.mAxes

\* C6 as stated: computeFinalState is the only operation that writes g_finalState,
\* and prevAxes[i] changes only in a step in which the clamped axis i changes.
C6_SingleMutationPoint ==
    [][g_finalState' # g_finalState =>
          /\ computeFinalStateAndCheckForChanges
          /\ \A i \in AxisIndex :
                g_finalState'.mPrevAxes[i] # g_finalState.mPrevAxes[i] =>
                    g_finalState'.mAxes[i] # g_finalState.mAxes[i]]_vars

\* C6, amended: only computeFinalState writes the final axes and buttons; prevAxes[i]
\* changes only in a computeFinalState step in which the clamped axis i changes, or
\* in an updateResendPeriod call made while the next-resend interval is not 0, which
\* copies axes into prevAxes.
C6_FinalStateWriters ==
    [][/\ FinalChanges => computeFinalStateAndCheckForChanges
       /\ \A i \in AxisIndex :
             g_finalState'.mPrevAxes[i] # g_finalState.mPrevAxes[i] =>
                \/ /\ computeFinalStateAndCheckForChanges
                   /\ g_finalState'.mAxes[i] # g_finalState.mAxes[i]
                \/ /\ updateResendPeriod
                   /\ g_nextResendPeriod # U64Zero
                   /\ g_finalState'.mPrevAxes = g_finalState.mAxes]_vars

\* a resend has overwritten the prevAxes entry that the merge had set
C6_Witness ==
    /\ changeSeen
    /\ sendsSinceChange >= 2
    /\ \E i \in AxisIndex :
          /\ FinalAxesChangedAt(i)
          /\ g_finalState.mPrevAxes[i] # preChangeAxes[i]
          /\ g_finalState.mPrevAxes[i] = g_finalState.mAxes[i]

\* C7: in computeFinalState, an axis whose newly clamped value differs from the
\* published one gets the old published value in prevAxes and the new one in axes;
\* an axis whose value does not differ keeps both.
C7_PrevAxisOnChange ==
    [][computeFinalStateAndCheckForChanges =>
          \A i \in AxisIndex :
              IF ClampedSum(i) # g_finalState.mAxes[i]
              THEN /\ g_finalState'.mPrevAxes[i] = g_finalState.mAxes[i]
                   /\ g_finalState'.mAxes[i] = ClampedSum(i)
              ELSE /\ g_finalState'.mPrevAxes[i] = g_finalState.mPrevAxes[i]
                   /\ g_finalState'.mAxes[i] = g_finalState.mAxes[i]]_vars

\* an axis moved from one non-zero value to another: prevAxes holds the old one
C7_Witness ==
    /\ changeSeen
    /\ sendsSinceChange = 0
    /\ \E i \in AxisIndex :
          /\ FinalAxesChangedAt(i)
          /\ preChangeAxes[i] # 0
          /\ g_finalState.mAxes[i] # 0
          /\ g_finalState.mPrevAxes[i] = preChangeAxes[i]

\* C8: after computeFinalState the final buttons are the accumulated device buttons,
\* OR'd with the external buttons only if translate-agent-actions is on, and each
\* final axis is clamp(deviceSum + (external if the flag is on, else 0)).
C8_MergeResult ==
    [][computeFinalStateAndCheckForChanges =>
          /\ g_finalState'.mButtons =
                (IF g_translateAgentActions
                 THEN mButtonAccumulator \cup mExternalState.mButtons
                 ELSE mButtonAccumulator)
          /\ \A i \in AxisIndex : g_finalState'.mAxes[i] = ClampedSum(i)]_vars

\* the flag is off and the external state is not empty: the final state shows the
\* device input alone
C8_Witness ==
    /\ ~ g_translateAgentActions
    /\ mExternalState.mButtons # {}
    /\ mExternalState.mAxes # ZeroAxes
    /\ mButtonAccumulator # {}
    /\ mAxesAccumulator # ZeroAxes
    /\ g_finalState.mButtons = mButtonAccumulator
    /\ g_finalState.mAxes = mAxesAccumulator

\* C9: every final axis lies in [-32768, 32767] in every reachable state; a merge
\* publishes an in-range sum unchanged, -32768 for a sum below the range and 32767
\* for a sum above it.
C9_Clamp ==
    /\ [](\A i \in AxisIndex :
            g_finalState.mAxes[i] >= -32768 /\ g_finalState.mAxes[i] <= 32767)
    /\ [][computeFinalStateAndCheckForChanges =>
             \A i \in AxisIndex :
                LET sum == mAxesAccumulator[i]
                           + (IF g_translateAgentActions THEN mExternalState.mAxes[i]
                              ELSE 0)
                IN  /\ (sum >= -32768 /\ sum <= 32767) => g_finalState'.mAxes[i] = sum
                    /\ sum < -32768 => g_finalState'.mAxes[i] = -32768
                    /\ sum > 32767 => g_finalState'.mAxes[i] = 32767]_vars

\* sums past either end of the range have been merged and published saturated
C9_Witness ==
    /\ g_translateAgentActions
    /\ \E i \in AxisIndex :
          /\ mAxesAccumulator[i] + mExternalState.mAxes[i] < -32768
          /\ g_finalState.mAxes[i] = -32768
          /\ g_finalState.mPrevAxes[i] = 32767
          /\ preChangeAxes[i] = 32767

\* C10 as stated: the storage rule of onAxis applied twice to a raw S16 value on a
\* stick axis gives the value back, and neither application leaves the S16 range.
C10_NegationRoundTrip ==
    /\ negCount >= 1 => (negOnce >= -32768 /\ negOnce <= 32767)
    /\ negCount = 2 => (negTwice >= -32768 /\ negTwice <= 32767)
    /\ negCount = 2 => negTwice = negRaw

\* C10, amended: neither application leaves the S16 range, and the rule applied
\* twice gives the raw value back for every raw value but -1; -1 is stored as 0,
\* and 0 stays 0.
C10_NegationRoundTripButMinusOne ==
    /\ negCount >= 1 => (negOnce >= -32768 /\ negOnce <= 32767)
    /\ negCount = 2 => (negTwice >= -32768 /\ negTwice <= 32767)
    /\ (negCount = 2 /\ negRaw # -1) => negTwice = negRaw
    /\ (negCount = 2 /\ negRaw = -1) => (negOnce = 0 /\ negTwice = 0)

\* the boundary case: -32768 is stored as 32767 and comes back as -32768
C10_Witness ==
    /\ negCount = 2
    /\ negRaw = -32768
    /\ negOnce = 32767
    /\ negTwice = -32768

\* the step is the handling of an SDL event of this kind; lastEvent' names its
\* arguments
AxisEvent ==
    /\ lastEvent'.type = "axis"
    /\ onControllerAxis(lastEvent'.id, lastEvent'.index, lastEvent'.value)
ButtonEvent ==
    /\ lastEvent'.type = "button"
    /\ onControllerButton(lastEvent'.id, lastEvent'.index, lastEvent'.value = 1)
AddedEvent == lastEvent'.type = "added" /\ onControllerDeviceAdded(lastEvent'.id)
RemovedEvent == lastEvent'.type = "removed" /\ onControllerDeviceRemoved(lastEvent'.id)

\* the device with this id in a device list (there is one)
DeviceOf(states, id) ==
    states[CHOOSE k \in 1 .. Len(states) : states[k].mJoystickID = id]

DeviceIdsOf(states) == {states[k].mJoystickID : k \in 1 .. Len(states)}

\* C11: onAxis for a known device and an axis index 0..5 stores -(v+1) for v < 0,
\* -v-1 for v > 0 and 0 for v = 0 on the axes 0..3, and v itself on the trigger axes
\* 4 and 5; every other axis of that device, its buttons and prevAxes, and every
\* other device stay as they were.
C11_OnAxisStores ==
    [][LET id == lastEvent'.id
           axis == lastEvent'.index
           v == lastEvent'.value
       IN (AxisEvent /\ axis <= 5 /\ id \in DeviceIdsOf(mStates)) =>
             /\ Len(mStates') = Len(mStates)
             /\ \A k \in 1 .. Len(mStates) :
                   /\ mStates'[k].mJoystickID = mStates[k].mJoystickID
                   /\ mStates'[k].mButtons = mStates[k].mButtons
                   /\ mStates'[k].mPrevAxes = mStates[k].mPrevAxes
                   /\ \A i \in AxisIndex :
                         mStates'[k].mAxes[i] =
                            IF mStates[k].mJoystickID = id /\ i = axis
                            THEN IF axis >= 4 THEN v
                                 ELSE IF v < 0 THEN - (v + 1)
                                 ELSE IF v > 0 THEN (- v) - 1
                                 ELSE 0
                            ELSE mStates[k].mAxes[i]]_vars

\* device 1 has just stored a stick value on axis 1; its trigger axis and buttons,
\* and the other device, hold what earlier events left
C11_Witness ==
    /\ lastEvent.type = "axis" /\ lastEvent.known
    /\ lastEvent.id = 1 /\ lastEvent.index = 1 /\ lastEvent.value = 20000
    /\ DeviceIdsOf(mStates) = {1, 2}
    /\ DeviceOf(mStates, 1).mAxes[1] = -20001
    /\ DeviceOf(mStates, 1).mAxes[AXIS_TRIGGERLEFT] = 20000
    /\ DeviceOf(mStates, 1).mButtons = {0}
    /\ DeviceOf(mStates, 2).mAxes[1] = 19999
    /\ DeviceOf(mStates, 2).mButtons = {MAX_BUTTON}

\* C12: with one connected device, no external input and translate-agent-actions
\* off, a report of -20000 on axis 1 is stored as 19999; once accumulated, the merge
\* publishes 19999 on final axis 1 and, the state having changed, zeroes the resend
\* interval, so that with send-to-server on the packet-due result is TRUE whenever
\* the clock reads later than the last send (as it does before the first send).
C12_ExampleScenario ==
    [][/\ (onAxis(1, 1, -20000) /\ Len(mStates) = 1) => mStates'[1].mAxes[1] = 19999
       /\ (/\ computeFinalStateAndCheckForChanges
           /\ Len(mStates) = 1
           /\ mStates[1].mAxes[1] = 19999
           /\ mAxesAccumulator[1] = 19999
           /\ mExternalState = NewState
           /\ ~ g_translateAgentActions
           /\ g_finalState.mAxes[1] # 19999) =>
             /\ g_finalState'.mAxes[1] = 19999
             /\ g_nextResendPeriod' = U64Zero
             /\ (g_sendToServer /\ U64Less(g_lastSend, now)) => packetDue']_vars

\* the scenario has run: 19999 is published on axis 1, up from rest, and a packet
\* is due with no time allowed for a resend interval
C12_Witness ==
    /\ Len(mStates) = 1
    /\ mStates[1].mAxes[1] = 19999
    /\ g_finalState.mAxes[1] = 19999
    /\ g_finalState.mPrevAxes[1] = 0
    /\ g_nextResendPeriod = U64Zero
    /\ g_sendToServer
    /\ packetDue
    /\ changeSeen /\ sendsSinceChange = 0

\* C13: mStates never holds two devices with the same id, and addController for an
\* id that is present leaves mStates, the device's axes and buttons included, as it
\* was.
C13_OneStatePerDevice ==
    /\ [](\A j, k \in 1 .. Len(mStates) :
            mStates[j].mJoystickID = mStates[k].mJoystickID => j = k)
    /\ [][(AddedEvent /\ lastEvent'.id \in DeviceIdsOf(mStates)) =>
                mStates' = mStates]_vars

\* a device with axis and button input was added a second time, with another
\* device connected
C13_Witness ==
    /\ lastEvent.type = "added" /\ lastEvent.known /\ lastEvent.id = 2
    /\ Len(mStates) = 2
    /\ DeviceOf(mStates, 2).mAxes[1] = 19999
    /\ DeviceOf(mStates, 2).mButtons = {0, MAX_BUTTON}

\* C14: removeController for an id that is not present changes nothing; for an id
\* that is present it deletes that device and keeps the others, in their order and
\* with their state; either way the id is absent afterwards, so that a second
\* removal is a removal of an absent id.
C14_RemoveIdempotent ==
    [][LET id == lastEvent'.id
       IN RemovedEvent =>
             /\ id \notin DeviceIdsOf(mStates) => mStates' = mStates
             /\ id \in DeviceIdsOf(mStates) =>
                   LET k == CHOOSE j \in 1 .. Len(mStates) : mStates[j].mJoystickID = id
                   IN  mStates' = SubSeq(mStates, 1, k - 1)
                                  \o SubSeq(mStates, k + 1, Len(mStates))
             /\ id \notin DeviceIdsOf(mStates')]_vars

\* device 1 was removed while absent; device 2 keeps its input
C14_Witness ==
    /\ lastEvent.type = "removed" /\ ~ lastEvent.known /\ lastEvent.id = 1
    /\ DeviceIdsOf(mStates) = {2}
    /\ DeviceOf(mStates, 2).mAxes[AXIS_TRIGGERLEFT] = 20000
    /\ DeviceOf(mStates, 2).mButtons = {MAX_BUTTON}

RECURSIVE SumOverDevices(_, _, _)
\* the sum of axis i over the devices of a device list with the given ids
SumOverDevices(states, ids, i) ==
    IF ids = {} THEN 0
    ELSE LET id == CHOOSE x \in ids : TRUE
         IN  DeviceOf(states, id).mAxes[i] + SumOverDevices(states, ids \ {id}, i)

Reversed(seq) == [k \in 1 .. Len(seq) |-> seq[Len(seq) + 1 - k]]

\* C15: accumulateInternalState leaves in each axis accumulator the plain integer
\* sum of that axis over the connected devices, not clamped to 16 bits, and in the
\* button accumulator the union of their masks; the devices taken in the opposite
\* order accumulate to the same.
C15_AccumulationOrderFree ==
    [][computeInternalActionFlags =>
          /\ \A i \in AxisIndex :
                /\ mAxesAccumulator'[i] = SumOverDevices(mStates, DeviceIdsOf(mStates), i)
                /\ mAxesAccumulator'[i] = SumAxis(Reversed(mStates), i, Len(mStates))
          /\ mButtonAccumulator' = UNION {st.mButtons : st \in {mStates[k] : k \in 1 .. Len(mStates)}}
          /\ mButtonAccumulator' = OrButtons(Reversed(mStates), Len(mStates))]_vars

\* device 2 was connected before device 1; their triggers sum past the S16 range,
\* their sticks cancel to -2, and each holds one button
C15_Witness ==
    /\ Len(mStates) = 2 /\ mStates[1].mJoystickID = 2 /\ mStates[2].mJoystickID = 1
    /\ mStates[1].mAxes[1] = 19999 /\ mStates[2].mAxes[1] = -20001
    /\ mStates[1].mButtons = {0} /\ mStates[2].mButtons = {MAX_BUTTON}
    /\ mAxesAccumulator[AXIS_TRIGGERLEFT] = 40000
    /\ mAxesAccumulator[1] = -2
    /\ mButtonAccumulator = {0, MAX_BUTTON}

\* C16: an axis event with an axis index above 5, a button event with a button
\* index above 31, and an axis or button event for a device that is not in mStates
\* leave mStates as it was.
C16_OutOfRangeIgnored ==
    [][/\ (AxisEvent /\ (lastEvent'.index > 5 \/ lastEvent'.id \notin DeviceIdsOf(mStates)))
             => mStates' = mStates
       /\ (ButtonEvent /\ (lastEvent'.index > 31 \/ lastEvent'.id \notin DeviceIdsOf(mStates)))
             => mStates' = mStates]_vars

\* a press of button 32 reached a known device whose mask has bit 0 clear
C16_Witness ==
    /\ lastEvent.type = "button" /\ lastEvent.known
    /\ lastEvent.index = NUM_BUTTONS /\ lastEvent.value = 1
    /\ DeviceOf(mStates, lastEvent.id).mButtons = {MAX_BUTTON}
    /\ DeviceOf(mStates, lastEvent.id).mAxes[1] = 19999

\* C17: State::onButton(b, pressed) with b in 0..31 leaves the mask with bit b set
\* (pressed) or clear (released) and every other bit as it was, and returns TRUE
\* exactly when the mask is not what it was before the call.
C17_OnButtonBit ==
    [][LET id == lastEvent'.id
           b == lastEvent'.index
           pressed == (lastEvent'.value = 1)
       IN (ButtonEvent /\ b <= 31 /\ id \in DeviceIdsOf(mStates)) =>
             LET old == DeviceOf(mStates, id).mButtons
                 new == DeviceOf(mStates', id).mButtons
             IN  /\ (b \in new) = pressed
                 /\ new \ {b} = old \ {b}
                 /\ onButtonChanged' = (new # old)
                 /\ (pressed /\ b \in old) => ~ onButtonChanged']_vars

\* button 31 was pressed while already pressed, with button 0 pressed as well: the
\* call returned FALSE
C17_Witness ==
    /\ lastEvent.type = "button" /\ lastEvent.known
    /\ lastEvent.index = MAX_BUTTON /\ lastEvent.value = 1
    /\ ~ onButtonChanged
    /\ DeviceOf(mStates, lastEvent.id).mButtons = {0, MAX_BUTTON}

\* the grammar of channel names: AXIS_<digit>[+|-] and BUTTON_<1-2 digits>
IsAxisName(name) ==
    /\ Len(name) \in {6, 7}
    /\ SubSeq(name, 1, 5) = PrefixAxis
    /\ name[6] \in Digits
    /\ Len(name) = 7 => name[7] \in {"+", "-"}

IsButtonName(name) ==
    /\ Len(name) \in {8, 9}
    /\ SubSeq(name, 1, 7) = PrefixButton
    /\ name[8] \in Digits
    /\ Len(name) = 9 => name[9] \in Digits

\* C19: getChannelByName returns an AXIS channel for a name AXIS_<digit>[+|-], with
\* the digit as index and sign + unless the name ends in -, a BUTTON channel for a
\* name BUTTON_<1-2 digits>, with the number as index, and the none channel for
\* every other string.
C19_NameGrammar ==
    parsedChannel # channelUnset =>
    /\ IsAxisName(parsedName) =>
          /\ parsedChannel.mType = "AXIS"
          /\ parsedChannel.mIndex = DigitValue(parsedName[6])
          /\ parsedChannel.mSign = (IF Len(parsedName) = 7 /\ parsedName[7] = "-"
                                    THEN -1 ELSE 1)
    /\ IsButtonName(parsedName) =>
          /\ parsedChannel.mType = "BUTTON"
          /\ parsedChannel.mIndex =
                (IF Len(parsedName) = 8 THEN DigitValue(parsedName[8])
                 ELSE 10 * DigitValue(parsedName[8]) + DigitValue(parsedName[9]))
    /\ (~ IsAxisName(parsedName) /\ ~ IsButtonName(parsedName)) =>
          parsedChannel.mType = "NONE"

\* the invariant of InputChannel
ChannelInRange(channel) ==
    \/ channel.mType = "NONE"
    \/ channel.mType = "AXIS" /\ channel.mIndex < 6
    \/ channel.mType = "BUTTON" /\ channel.mIndex < 32

\* C20: every channel returned by getChannelByName and every channel held in the
\* flycam table or in the action map is none, an AXIS with an index below 6, or a
\* BUTTON with an index below 32.
C20_ChannelInvariant ==
    /\ ChannelInRange(parsedChannel)
    /\ \A k \in 1 .. Len(mFlycamChannels) : ChannelInRange(mFlycamChannels[k])
    /\ \A a \in DOMAIN mActionMap : ChannelInRange(mActionMap[a])

\* the names the constructor registers: the analog actions, bare and with either
\* sign, the binary actions and the flycam actions
RegisteredAnalog == {"push", "slide", "jump", "turn", "look"}
RegisteredSigned == {"push+", "push-", "slide+", "slide-", "jump+", "jump-",
                     "turn+", "turn-", "look+", "look-"}
RegisteredBinary == {"toggle_run", "toggle_fly", "toggle_flycam", "stop"}
RegisteredFlycam == {"advance", "pan", "rise", "pitch", "yaw", "zoom"}

\* the step is an updateActionMap call; updateActionMapResult' names its arguments
UpdateActionMapCall ==
    updateActionMap(updateActionMapResult'.action, updateActionMapResult'.channel)

\* C21: updateActionMap with a name that is no registered analog, signed analog,
\* binary or flycam action returns false and leaves the action map and the flycam
\* table as they were; with a registered name it returns true and changes the
\* binding of that action only: one flycam slot, one entry of the action map, or
\* the two signed halves of an analog action named without a sign.
C21_UpdateActionMap ==
    [][LET action == updateActionMapResult'.action
           channel == updateActionMapResult'.channel
       IN UpdateActionMapCall =>
             IF action \notin RegisteredAnalog \cup RegisteredSigned \cup RegisteredBinary
                             \cup RegisteredFlycam
             THEN /\ ~ updateActionMapResult'.result
                  /\ UNCHANGED <<mActionMap, mFlycamChannels>>
             ELSE /\ updateActionMapResult'.result
                  /\ IF action \in RegisteredFlycam
                     THEN /\ mActionMap' = mActionMap
                          /\ \A k \in 1 .. Len(mFlycamActions) :
                                mFlycamChannels'[k] =
                                   IF mFlycamActions[k] = action THEN channel
                                   ELSE mFlycamChannels[k]
                     ELSE /\ mFlycamChannels' = mFlycamChannels
                          /\ action \in DOMAIN mActionMap => mActionMap'[action] = channel
                          /\ \A a \in DOMAIN mActionMap :
                                a \notin {action, action \o "+", action \o "-"} =>
                                   mActionMap'[a] = mActionMap[a]]_vars

\* a call with a name that is no action returned false, with the flycam table and
\* the action map holding what earlier calls had bound
C21_Witness ==
    /\ updateActionMapResult.action = "fire"
    /\ ~ updateActionMapResult.result
    /\ mFlycamChannels[6] = Channel("AXIS", 3, -1)
    /\ mActionMap["push-"] = Channel("BUTTON", 5, 0)
    /\ mActionMap["push+"] = Channel("AXIS", 1, 1)

\* no analog, binary or flycam action is bound to a channel
NothingMapped(map, flycam) ==
    /\ \A a \in DOMAIN map : map[a].mType = "NONE"
    /\ \A k \in 1 .. Len(flycam) : flycam[k].mType = "NONE"

\* C22: if no action is bound to a channel once loadFromSettings has restored the
\* stored mapping strings, the default mappings are installed; after every
\* loadFromSettings getMappedFlags() is not 0.
C22_DegenerateRecovery ==
    [][LET settings == loadedSettings'.settings
       IN (loadedSettings'.read /\ loadFromSettings(settings)) =>
             /\ NothingMapped(RestoredActionMap(settings),
                              FlycamAfterSetMappings(SplitPairs(settings.flycamMappings)))
                   => /\ mActionMap' = ExpandedMappings(agent_defaults)
                      /\ mFlycamChannels' = flycam_defaults
             /\ getMappedFlags(mActionMap') # {}]_vars

\* stored strings that are not empty and bind no action were loaded: the defaults
\* are in place, with the stored mode
C22_Witness ==
    /\ loadedSettings.read
    /\ loadedSettings.settings.analogMappings # <<>>
    /\ loadedSettings.settings.binaryMappings = <<>>
    /\ loadedSettings.settings.flycamMappings # <<>>
    /\ NothingMapped(RestoredActionMap(loadedSettings.settings),
                     FlycamAfterSetMappings(SplitPairs(loadedSettings.settings.flycamMappings)))
    /\ g_agentControlMode = "flycam"
    /\ g_controlAgent
    /\ mActionMap = ExpandedMappings(agent_defaults)
    /\ mFlycamChannels = flycam_defaults

\* C23: for any mapping and any State, the flags of the State, translated back to
\* a State with computeStateFromFlags, give a State whose flags are the same set;
\* the sharing of the FAST_AT, FAST_LEFT and FAST_UP bits between the two halves of
\* an analog action makes no difference to that, so the sets are equal bit for bit.
\* The State in between has every bound axis of an active action at full
\* deflection and nothing else set.
C23_TranslatorRoundTrip ==
    /\ rtCount = 3 => rtFlagsBack = rtFlags
    /\ rtCount >= 2 =>
          /\ \A i \in AxisIndex : rtBack.mAxes[i] \in {S16_MIN, 0, S16_MAX}
          /\ \A i \in AxisIndex :
                rtBack.mAxes[i] # 0 =>
                   \E a \in SignedActions :
                      /\ actionMasks[a] \subseteq rtFlags
                      /\ mActionMap[a] =
                            Channel("AXIS", i, IF rtBack.mAxes[i] < 0 THEN -1 ELSE 1)

\* push and turn share axis 1 with opposite signs: a barely positive axis and a
\* pressed stop button come back as full deflection, the button, and the flags of
\* push+, turn- and stop, FAST_AT included
C23_Witness ==
    /\ rtCount = 3
    /\ mActionMap["turn-"] = Channel("AXIS", 1, 1)
    /\ rtAxes[1] = 1
    /\ rtAxes[0] = S16_MIN
    /\ rtButtons = {7}
    /\ rtBack.mAxes[1] = S16_MAX
    /\ rtBack.mAxes[0] = S16_MIN
    /\ rtBack.mButtons = {7}
    /\ AGENT_CONTROL_FAST_AT \subseteq rtFlagsBack
    /\ AGENT_CONTROL_AT_POS \subseteq rtFlagsBack
    /\ AGENT_CONTROL_YAW_NEG \subseteq rtFlagsBack
    /\ AGENT_CONTROL_STOP \subseteq rtFlagsBack
    /\ AGENT_CONTROL_AT_NEG \cap rtFlagsBack = {}

\* the clamp to the S16 range
ClampS16(x) == IF x < -32768 THEN -32768 ELSE IF x > 32767 THEN 32767 ELSE x

\* the slot of the rise action in the flycam table
RiseSlot == CHOOSE k \in 1 .. Len(mFlycamActions) : mFlycamActions[k] = "rise"

\* every slot on a trigger axis gets the clamped difference of the trigger sums,
\* left minus right on the left trigger and right minus left on the right one
TiedTriggers ==
    \A k \in 1 .. Len(mFlycamChannels) :
        /\ (mFlycamChannels[k].mType = "AXIS" /\ mFlycamChannels[k].mIndex = 4) =>
              flycamInputs'[k].axis = ClampS16(mAxesAccumulator[4] - mAxesAccumulator[5])
        /\ (mFlycamChannels[k].mType = "AXIS" /\ mFlycamChannels[k].mIndex = 5) =>
              flycamInputs'[k].axis = ClampS16(mAxesAccumulator[5] - mAxesAccumulator[4])

\* C24 as stated: a flycam slot bound to the left trigger gets clamp(left - right)
\* and one bound to the right trigger clamp(right - left), clamped to
\* [-32768, 32767]; with 10000 accumulated on the left trigger and 3000 on the right
\* one the rise slot gets 7000.
C24_TiedTriggers ==
    [][getFlycamInputs =>
          /\ TiedTriggers
          /\ (mAxesAccumulator[4] = 10000 /\ mAxesAccumulator[5] = 3000) =>
                flycamInputs'[RiseSlot].axis = 7000]_vars

\* C24, amended: the same values per trigger; with 10000 on the left trigger and
\* 3000 on the right one the rise slot gets 7000 if it is bound to the left
\* trigger and -7000 if it is bound to the right trigger, as it is by default.
C24_TiedTriggersBySlot ==
    [][getFlycamInputs =>
          /\ TiedTriggers
          /\ (mAxesAccumulator[4] = 10000 /\ mAxesAccumulator[5] = 3000) =>
                /\ mFlycamChannels[RiseSlot].mIndex = 4 => flycamInputs'[RiseSlot].axis = 7000
                /\ mFlycamChannels[RiseSlot].mIndex = 5 => flycamInputs'[RiseSlot].axis = -7000
                /\ mFlycamChannels = flycam_defaults => flycamInputs'[RiseSlot].axis = -7000]_vars

\* the default table with 10000 and 3000 accumulated on the triggers: the rise slot
\* got -7000, to be divided by 32768 and multiplied by the sign +1
C24_Witness ==
    /\ mFlycamChannels = flycam_defaults
    /\ mAxesAccumulator[4] = 10000 /\ mAxesAccumulator[5] = 3000
    /\ Len(flycamInputs) = 6
    /\ flycamInputs[RiseSlot] = [axis |-> -7000, divisor |-> 32768, sign |-> 1]

\* C25: the flycam inputs do not depend on the external state or on the translate
\* flag: a step that changes the external state, the translate flag or the final
\* state leaves the accumulator, the flycam table and the flycam inputs alone; the
\* accumulator only ever changes to the sums over the device table; and the flycam
\* inputs only ever change to the values of the accumulator under the flycam table.
C25_NoExternalLeak ==
    [][/\ (mExternalState' # mExternalState \/ mLastActiveFlags' # mLastActiveFlags
             \/ g_translateAgentActions' # g_translateAgentActions
             \/ g_finalState' # g_finalState) =>
               UNCHANGED <<mAxesAccumulator, mFlycamChannels, flycamInputs>>
       /\ mAxesAccumulator' # mAxesAccumulator =>
               mAxesAccumulator' = [i \in AxisIndex |-> SumAxis(mStates, i, Len(mStates))]
       /\ flycamInputs' # flycamInputs =>
               flycamInputs' = [k \in 1 .. Len(mFlycamChannels) |->
                                  FlycamInput(mFlycamChannels[k], mAxesAccumulator, 0)]]_vars

\* the external state was merged into the final state of axis 1, which differs from
\* the accumulator, and the advance slot, on axis 1, holds the accumulator's value
C25_Witness ==
    /\ g_translateAgentActions
    /\ mExternalState.mAxes[1] # 0
    /\ mAxesAccumulator[1] # 0
    /\ g_finalState.mAxes[1] = ClampS16(mAxesAccumulator[1] + mExternalState.mAxes[1])
    /\ g_finalState.mAxes[1] # mAxesAccumulator[1]
    /\ Len(flycamInputs) = 6
    /\ mFlycamChannels[1].mIndex = 1
    /\ flycamInputs[1].axis = mAxesAccumulator[1]

\* C26: a merge that detects a change zeroes the period; the period stays zero
\* until updateResendPeriod stamps a send; and with sending enabled every poll that
\* detects a change or finds the period zeroed, at a clock reading after the last
\* send, reports that a packet is due, a poll that detects no change included.
C26_PendingSendStaysDue ==
    [][/\ (computeFinalStateAndCheckForChanges
             /\ MergeDetectsChange(g_finalState, MergedState(g_finalState))) =>
               g_nextResendPeriod' = U64Zero
       /\ (g_nextResendPeriod = U64Zero /\ ~ updateResendPeriod) =>
               g_nextResendPeriod' = U64Zero
       /\ (computeFinalStateAndCheckForChanges /\ g_sendToServer
             /\ U64Less(g_lastSend, now)
             /\ (g_nextResendPeriod = U64Zero
                   \/ MergeDetectsChange(g_finalState, MergedState(g_finalState)))) =>
               packetDue']_vars

\* a change was detected after a send, no send followed, and a poll one first resend
\* period after that send, too early for a resend, reports a packet due
C26_Witness ==
    /\ g_sendToServer
    /\ changeSeen /\ sendsSinceChange = 0
    /\ g_nextResendPeriod = U64Zero
    /\ g_lastSend # U64Zero
    /\ now = U64Add(g_lastSend, FIRST_RESEND_PERIOD)
    /\ packetDue

\* the axes and buttons computeFinalState would leave in g_finalState if it ran now
MergeResult ==
    LET merged == MergedState(g_finalState)
    IN  [mAxes |-> merged.mAxes, mButtons |-> merged.mButtons]

\* the axes and buttons of a merge of the accumulators with a zeroed external state
MergeResultOfDevices ==
    [mAxes |-> [i \in AxisIndex |->
                  MergedAxis(mAxesAccumulator[i], 0, g_translateAgentActions)],
     mButtons |-> mButtonAccumulator]

\* C27 as stated: the final state is computed from the accumulators as the last
\* accumulateInternalState left them: a device added or removed, an axis or button
\* event and clearAllStates leave the accumulators alone and do not change what
\* computeFinalState would compute.
C27_MergeFromSnapshot ==
    [][(mStates' # mStates \/ clearAllStates) =>
          /\ UNCHANGED <<mAxesAccumulator, mButtonAccumulator>>
          /\ MergeResult' = MergeResult]_vars

\* C27, amended: device events and removal leave the accumulators and the result
\* of the merge alone; clearAllStates leaves the accumulators alone but zeroes the
\* external state, so the merge after it is that of the accumulators alone, equal
\* to the one before only if translation is off or the external state was zero.
C27_MergeFromSnapshotButExternal ==
    [][/\ (mStates' # mStates \/ clearAllStates) =>
             UNCHANGED <<mAxesAccumulator, mButtonAccumulator>>
       /\ (mStates' # mStates /\ ~ clearAllStates) => MergeResult' = MergeResult
       /\ clearAllStates =>
             /\ MergeResult' = MergeResultOfDevices
             /\ (~ g_translateAgentActions \/ mExternalState = ClearedState(mExternalState))
                   => MergeResult' = MergeResult]_vars

\* the device was removed after it was accumulated and merged: the final state
\* still holds its axis, from the accumulator
C27_Witness ==
    /\ Len(mStates) = 0
    /\ mAxesAccumulator[1] # 0
    /\ ~ g_translateAgentActions
    /\ g_finalState.mAxes[1] = mAxesAccumulator[1]
    /\ MergeResult.mAxes[1] = mAxesAccumulator[1]

\* every device and the external state have zero axes and no button down
InputsAtRest ==
    /\ \A k \in 1 .. Len(mStates) : mStates[k].mAxes = ZeroAxes /\ mStates[k].mButtons = {}
    /\ mExternalState.mAxes = ZeroAxes /\ mExternalState.mButtons = {}

\* C28: clearAllStates leaves every device and the external state at rest; an
\* accumulateInternalState that finds them at rest leaves them so and zeroes the
\* accumulators; and a computeFinalState that finds all of that leaves a final state
\* with six zero axes and no button, whatever the translate flag, and if the final
\* state was not zero before, it zeroes the resend period and copies each axis that
\* was not zero into prevAxes.
C28_ClearThenMerge ==
    [][/\ (lastEvent'.type = "unfocused" /\ processEventsUnfocused) => InputsAtRest'
       /\ (computeInternalActionFlags /\ InputsAtRest) =>
             /\ InputsAtRest'
             /\ mAxesAccumulator' = ZeroAxes /\ mButtonAccumulator' = {}
       /\ (computeFinalStateAndCheckForChanges /\ InputsAtRest
             /\ mAxesAccumulator = ZeroAxes /\ mButtonAccumulator = {}) =>
             /\ g_finalState'.mAxes = ZeroAxes /\ g_finalState'.mButtons = {}
             /\ (g_finalState.mAxes # ZeroAxes \/ g_finalState.mButtons # {}) =>
                   g_nextResendPeriod' = U64Zero
             /\ \A i \in AxisIndex :
                   g_finalState.mAxes[i] # 0 =>
                      g_finalState'.mPrevAxes[i] = g_finalState.mAxes[i]]_vars

\* focus was lost with translation on, then the accumulation and the merge ran:
\* everything is at rest, the final state is zero, the merge saw the change, zeroed
\* the resend period and kept the axis from before in prevAxes
C28_Witness ==
    /\ lastEvent.type = "unfocused"
    /\ g_translateAgentActions
    /\ Len(mStates) = 1 /\ InputsAtRest
    /\ mAxesAccumulator = ZeroAxes /\ mButtonAccumulator = {}
    /\ g_finalState.mAxes = ZeroAxes /\ g_finalState.mButtons = {}
    /\ changeSeen /\ sendsSinceChange = 0
    /\ preChangeAxes[1] # 0
    /\ g_finalState.mPrevAxes[1] = preChangeAxes[1]
    /\ g_nextResendPeriod = U64Zero

\* C29: with translation on, setExternalInput(flags, buttons) leaves an external
\* state whose axes are those of computeStateFromFlags(flags & BITS_OF_INTEREST) and
\* whose button mask is that state's buttons OR'd with buttons, whatever the flags
\* of earlier calls were.
C29_ExternalStateFromInputs ==
    [][\A flags \in FlagInputs, buttons \in ExtButtonInputs :
          (g_translateAgentActions /\ setExternalInput(flags, buttons)) =>
             \E st \in computeStateFromFlags(mActionMap, flags \cap BITS_OF_INTEREST) :
                /\ mExternalState'.mAxes = st.mAxes
                /\ mExternalState'.mButtons = st.mButtons \cup buttons]_vars

\* C30: computeInternalActionFlags sets the accumulators to the sums and the OR over
\* the device table as it is now; it returns 0 when control-agent is off, and when
\* it is on the translator's flags for those fresh accumulators, in which the
\* external state has no part.
C30_InternalActionFlags ==
    [][computeInternalActionFlags =>
          /\ mAxesAccumulator' = [i \in AxisIndex |-> SumAxis(mStates, i, Len(mStates))]
          /\ mButtonAccumulator' = OrButtons(mStates, Len(mStates))
          /\ ~ g_controlAgent => internalActionFlags' = {}
          /\ g_controlAgent =>
                internalActionFlags' =
                   computeFlagsFromState(mActionMap,
                                         [i \in AxisIndex |-> SumAxis(mStates, i, Len(mStates))],
                                         OrButtons(mStates, Len(mStates)))]_vars

\* control-agent and translation are on, the external state holds the stop button
\* and an axis, and the flags returned are those of the device's axis alone
C30_Witness ==
    /\ g_controlAgent /\ g_translateAgentActions
    /\ mExternalState.mButtons = {7}
    /\ mExternalState.mAxes[1] # 0
    /\ mAxesAccumulator[1] # 0 /\ mButtonAccumulator = {}
    /\ internalActionFlags # {}
    /\ internalActionFlags \cap AGENT_CONTROL_STOP = {}
    /\ internalActionFlags =
          computeFlagsFromState(mActionMap, mAxesAccumulator, mButtonAccumulator)

\* C31: an updateResendPeriod call that finds a non-zero interval leaves a strictly
\* larger one, however many such calls came before it, and the sum of the send
\* stamp and the interval it leaves does not wrap around 2^64.
C31_BackoffNeverShrinks ==
    [][(updateResendPeriodWithin(MaxBackoff) /\ g_nextResendPeriod # U64Zero) =>
          /\ U64Less(g_nextResendPeriod, g_nextResendPeriod')
          /\ ~ U64Less(U64Add(g_lastSend', g_nextResendPeriod'), g_lastSend')]_vars

\* C32: getFlycamInputs pushes six values and reads mAxesAccumulator at positions
\* 0..5 only, whatever the flycam table the mapping operations have left.
C32_FlycamReadsInRange ==
    [][getFlycamInputs =>
          /\ Len(flycamInputs') = 6
          /\ \A k \in 1 .. Len(mFlycamChannels) :
                FlycamReads(mFlycamChannels[k]) \subseteq AxisIndex]_vars

\* the same slot: both none, or the same AXIS or BUTTON channel
SameChannel(a, b) ==
    /\ a.mType = b.mType
    /\ a.mType # "NONE" => a = b

\* C33: for a flycam table whose slots are none or AXIS channels with an index of
\* 0..5 and a sign of +1 or -1, setFlycamMappings(getFlycamMappings()) leaves the
\* same table; the string has no mapping for a slot that is none, and such a slot
\* is none afterwards.
C33_FlycamStringRoundTrip ==
    /\ savedCount >= 1 =>
          \A k \in 1 .. Len(mFlycamActions) :
             savedChannels[k].mType = "NONE" =>
                \A j \in 1 .. Len(savedMappings) :
                   savedMappings[j].action # mFlycamActions[k]
    /\ savedCount = 2 =>
          \A k \in 1 .. Len(mFlycamActions) :
             SameChannel(mFlycamChannels[k], savedChannels[k])

\* a table with a none slot, a negative axis and the highest axis went through the
\* string, which has a mapping for each of its four axis slots, and came back
C33_Witness ==
    /\ savedCount = 2
    /\ savedChannels[1] = Channel("NONE", 0, 0)
    /\ savedChannels[2] = Channel("AXIS", 5, -1)
    /\ savedChannels[3] = Channel("AXIS", 0, 1)
    /\ Len(savedMappings) = 4
    /\ savedMappings[1] = Mapping("pan", TRUE, PrefixAxis \o <<"5", "-">>)
    /\ mFlycamChannels[1].mType = "NONE"
    /\ mFlycamChannels[2] = Channel("AXIS", 5, -1)
    /\ mFlycamChannels[3] = Channel("AXIS", 0, 1)
    /\ mFlycamChannels[4] = Channel("AXIS", 3, -1)

\* C34: every flycam action that the stored flycam string binds to an AXIS channel
\* with an index below NUM_AXES is bound to that channel when loadFromSettings
\* returns, whatever the stored analog and binary strings bind.
C34_FlycamBindingsKept ==
    [][LET settings == loadedSettings'.settings
           pairs == SplitPairs(settings.flycamMappings)
       IN (loadedSettings'.read /\ loadFromSettings(settings)) =>
             \A k \in 1 .. Len(mFlycamActions) :
                LET channel == MappedChannel(pairs, mFlycamActions[k], "AXIS")
                IN  (channel.mType = "AXIS" /\ channel.mIndex \in AxisIndex) =>
                       mFlycamChannels'[k] = channel]_vars

\* C18: clearAllStates zeroes the axes and the button mask of every device and of
\* the external state and leaves their prevAxes alone; the connected devices, the
\* action map and the flycam table, the accumulators, the final state and the
\* resend scheduler stay as they were.
C18_ClearFrame ==
    [][(lastEvent'.type = "unfocused" /\ processEventsUnfocused) =>
          /\ Len(mStates') = Len(mStates)
          /\ \A k \in 1 .. Len(mStates) :
                /\ mStates'[k].mJoystickID = mStates[k].mJoystickID
                /\ mStates'[k].mAxes = ZeroAxes
                /\ mStates'[k].mButtons = {}
                /\ mStates'[k].mPrevAxes = mStates[k].mPrevAxes
          /\ mExternalState'.mAxes = ZeroAxes
          /\ mExternalState'.mButtons = {}
          /\ mExternalState'.mPrevAxes = mExternalState.mPrevAxes
          /\ UNCHANGED <<mActionMap, mFlycamChannels, mAxesAccumulator,
                         mButtonAccumulator, g_finalState, g_lastSend,
                         g_nextResendPeriod>>]_vars

\* focus was lost with a device connected: the device and the external state are
\* at rest while the accumulators, the final state, its prevAxes and a backed-off
\* resend interval still show the input from before
C18_Witness ==
    /\ lastEvent.type = "unfocused"
    /\ Len(mStates) = 1
    /\ mStates[1].mAxes = ZeroAxes /\ mStates[1].mButtons = {}
    /\ mExternalState.mAxes = ZeroAxes /\ mExternalState.mButtons = {}
    /\ mAxesAccumulator[1] = S16_MAX
    /\ mButtonAccumulator = {0}
    /\ g_finalState.mAxes[1] = S16_MAX
    /\ g_finalState.mPrevAxes[1] = S16_MAX
    /\ g_finalState.mButtons = {0, 7}
    /\ g_nextResendPeriod = Ms(1000)

====
